---- MODULE Spec2Model ----
(***************************************************************************)
(* Model of the diagnostic consensus and orthotic recommendation engine:   *)
(*   - apply_medical_rules and its add_recommendation (diagnosis_rules.py) *)
(*   - ArchTypeModel._determine_overall_arch_type and                      *)
(*     _boost_confidence_with_agreement_analysis (arch_model.py)           *)
(*   - BaseFootModel.analyze (base_model.py)                               *)
(*   - FootDiagnosisModel.analyze_foot_images (ai_diagnosis.py)            *)
(* Confidences are integers in hundredths (0.85 is 85); the ensemble vote  *)
(* is kept in ten-thousandths (weight in hundredths times confidence in    *)
(* hundredths).  Python dicts are functions; d.get(k, default) is Get.     *)
(***************************************************************************)
EXTENDS Integers, Sequences, FiniteSets, TLC

VARIABLES
    recommendations,        \* the dict built by apply_medical_rules
    calls,                  \* history: arguments of the add_recommendation calls so far
    rule_args,              \* arguments apply_medical_rules was called with
    classification_results, \* ArchTypeModel.analyze: method results, in insertion order
    overall,                \* (condition, confidence) after the vote and the boost
    last_error,             \* BaseFootModel.last_error
    responses,              \* history: what BaseFootModel.analyze returned or raised
    enabled_models,         \* FootDiagnosisModel.enabled_models
    pc,                     \* position of analyze_foot_images
    image_paths,            \* argument of analyze_foot_images
    idx,                    \* loop position in enabled_models
    results_models,         \* results['models'], in insertion order
    primary_diagnosis,      \* local of analyze_foot_images
    primary_confidence,     \* local of analyze_foot_images
    output,                 \* value returned by analyze_foot_images
    context_argument,       \* patient_context argument of analyze_foot_images
    toggles,                \* history: number of enable_model/disable_model calls so far
    abbr_input,             \* argument of map_abbreviations
    abbr_result,            \* value returned by map_abbreviations
    current_skin_data,      \* FootPressureModel.current_skin_data, shared by all calls
    call_pc,                \* position of each concurrent FootPressureModel.analyze call
    call_images,            \* images argument of each call
    calibrated_with,        \* local of each call: skin data its images were calibrated with
    call_results            \* value returned by each call

vars == <<recommendations, calls, rule_args, classification_results, overall, last_error,
          responses, enabled_models, pc, image_paths, idx, results_models,
          primary_diagnosis, primary_confidence, output, context_argument, toggles,
          abbr_input, abbr_result,
          current_skin_data, call_pc, call_images, calibrated_with, call_results>>

rulesVars == <<recommendations, calls, rule_args>>
ensembleVars == <<classification_results, overall>>
baseVars == <<last_error, responses>>
diagVars == <<enabled_models, pc, image_paths, idx, results_models,
              primary_diagnosis, primary_confidence, output, context_argument, toggles>>
abbrVars == <<abbr_input, abbr_result>>
pressureVars == <<current_skin_data, call_pc, call_images, calibrated_with, call_results>>

----------------------------------------------------------------------------
(* Helpers for Python dicts and lists *)

None == "None"

Get(d, k, default) == IF k \in DOMAIN d THEN d[k] ELSE default

Elems(s) == {s[i] : i \in 1..Len(s)}

In(x, s) == \E i \in 1..Len(s) : s[i] = x

----------------------------------------------------------------------------
(* diagnosis_rules.py: the add_recommendation primitive *)

MaxAdds == 3

RecNames == {"AS (Arch Support)", "Metatarsal Pad"}

Categories == {"intrinsic", "extrinsic"}

AddConfidences == {50, 90}

EmptyRecommendations ==
    [intrinsic |-> <<>>, extrinsic |-> <<>>, confidence_scores |-> <<>>,
     primary_recommendations |-> <<>>, secondary_recommendations |-> <<>>,
     combined_list |-> <<>>]

SetItem(d, k, v) == [x \in (DOMAIN d) \cup {k} |-> IF x = k THEN v ELSE d[x]]

AppendUnique(s, x) == IF In(x, s) THEN s ELSE Append(s, x)

add_recommendation_always_combined(recs, rec_name, category, confidence, primary) ==
    LET listed == [recs EXCEPT !.combined_list = Append(@, rec_name)] IN
    IF ~In(rec_name, recs[category])
    THEN LET r1 == [listed EXCEPT ![category] = Append(@, rec_name),
                                  !.confidence_scores = SetItem(@, rec_name, confidence)]
         IN IF primary
            THEN [r1 EXCEPT !.primary_recommendations = AppendUnique(@, rec_name)]
            ELSE [r1 EXCEPT !.secondary_recommendations = AppendUnique(@, rec_name)]
    ELSE listed

add_recommendation_always_scores(recs, rec_name, category, confidence, primary) ==
    LET scored == [recs EXCEPT !.confidence_scores = SetItem(@, rec_name, confidence)] IN
    IF ~In(rec_name, recs[category])
    THEN LET r1 == [scored EXCEPT ![category] = Append(@, rec_name),
                                  !.combined_list = Append(@, rec_name)]
         IN IF primary
            THEN [r1 EXCEPT !.primary_recommendations = AppendUnique(@, rec_name)]
            ELSE [r1 EXCEPT !.secondary_recommendations = AppendUnique(@, rec_name)]
    ELSE scored

add_recommendation(recs, rec_name, category, confidence, primary) ==
    IF ~In(rec_name, recs[category])
    THEN LET r1 == [recs EXCEPT ![category] = Append(@, rec_name),
                                !.confidence_scores = SetItem(@, rec_name, confidence),
                                !.combined_list = Append(@, rec_name)]
         IN IF primary
            THEN [r1 EXCEPT !.primary_recommendations = AppendUnique(@, rec_name)]
            ELSE [r1 EXCEPT !.secondary_recommendations = AppendUnique(@, rec_name)]
    ELSE recs

AddCall(rec_name, category, confidence, primary) ==
    [rec_name |-> rec_name, category |-> category,
     confidence |-> confidence, primary |-> primary]

AddRecommendation ==
    /\ Len(calls) < MaxAdds
    /\ \E rec_name \in RecNames, category \in Categories,
          confidence \in AddConfidences, primary \in BOOLEAN :
          /\ recommendations' =
                add_recommendation(recommendations, rec_name, category, confidence, primary)
          /\ calls' = Append(calls, AddCall(rec_name, category, confidence, primary))
    /\ UNCHANGED <<rule_args, ensembleVars, baseVars, diagVars, abbrVars, pressureVars>>

----------------------------------------------------------------------------
(* arch_model.py: weighted vote and agreement boost *)

MaxLowConfidence == 1

Methods == <<"arch_height_index", "medial_arch_angle", "chippaux_smirak_index",
             "navicular_drop", "arch_rigidity", "dynamic_arch_response">>

weights ==
    [m \in Elems(Methods) |->
        CASE m = "arch_height_index" -> 25
          [] m = "medial_arch_angle" -> 20
          [] m = "chippaux_smirak_index" -> 15
          [] m = "navicular_drop" -> 15
          [] m = "arch_rigidity" -> 10
          [] m = "dynamic_arch_response" -> 15]

VoteCategories == <<"flat_feet", "normal_arch", "high_arch">>

Classifications == Elems(VoteCategories) \cup {"rigid_arch"}

RECURSIVE SumOver(_, _)
SumOver(f, S) ==
    IF S = {} THEN 0
    ELSE LET x == CHOOSE y \in S : TRUE IN f[x] + SumOver(f, S \ {x})

Min(a, b) == IF a <= b THEN a ELSE b

Max(a, b) == IF a >= b THEN a ELSE b

(* votes[classification] += weight * confidence, for the first n results *)
RECURSIVE VoteFor(_, _, _, _)
VoteFor(classifications, w, c, n) ==
    IF n = 0 THEN 0
    ELSE VoteFor(classifications, w, c, n - 1)
         + (IF classifications[n].method \in DOMAIN w
               /\ classifications[n].classification = c
            THEN w[classifications[n].method] * classifications[n].confidence
            ELSE 0)

CollectVotes(classifications, w) ==
    [c \in Elems(VoteCategories) |-> VoteFor(classifications, w, c, Len(classifications))]

(* max(votes.items(), key=lambda x: x[1]): the first maximal item in dict order *)
ArgMaxLast(votes, keys) ==
    LET i == CHOOSE k \in 1..Len(keys) :
                /\ \A j \in 1..k : votes[keys[j]] <= votes[keys[k]]
                /\ \A j \in (k + 1)..Len(keys) : votes[keys[j]] < votes[keys[k]]
    IN keys[i]

ArgMaxFirst(votes, keys) ==
    LET i == CHOOSE k \in 1..Len(keys) :
                /\ \A j \in 1..(k - 1) : votes[keys[j]] < votes[keys[k]]
                /\ \A j \in k..Len(keys) : votes[keys[j]] <= votes[keys[k]]
    IN keys[i]

OverallFromVotes_no_floor(votes, condition, total_weight) ==
    [condition |-> condition,
     confidence |-> Min(9500,
                        IF total_weight > 0
                        THEN (votes[condition] * 100) \div total_weight
                        ELSE 7000),
     votes |-> votes]

OverallFromVotes(votes, condition, total_weight) ==
    [condition |-> condition,
     confidence |-> Max(6000, Min(9500,
                        IF total_weight > 0
                        THEN (votes[condition] * 100) \div total_weight
                        ELSE 7000)),
     votes |-> votes]

determine_overall_arch_type(votes, total_weight) ==
    OverallFromVotes(votes, ArgMaxFirst(votes, VoteCategories), total_weight)

ClassificationCount(classification_results_, c) ==
    Cardinality({i \in 1..Len(classification_results_) :
                    classification_results_[i].classification = c})

MostCommonCount(classification_results_) ==
    LET counts == {ClassificationCount(classification_results_, c) :
                      c \in {classification_results_[i].classification :
                                i \in 1..Len(classification_results_)}}
    IN IF counts = {} THEN 0 ELSE CHOOSE n \in counts : \A k \in counts : k <= n

BoostFor(most_common, total_methods, base_confidence) ==
    IF most_common > 0 /\ total_methods > 0
    THEN LET confidence_boost ==
                IF 10 * most_common > 8 * total_methods THEN 1000
                ELSE IF 10 * most_common > 6 * total_methods THEN 500
                ELSE 0
         IN Min(9500, base_confidence + confidence_boost)
    ELSE base_confidence

boost_confidence_with_agreement_analysis(classification_results_, base_confidence) ==
    BoostFor(MostCommonCount(classification_results_), Len(classification_results_),
             base_confidence)

(* The method results the classifier can be given: any choice of methods,    *)
(* each with a classification and a confidence (at most MaxLowConfidence of  *)
(* them below full confidence), inserted in the order of analyze or in the   *)
(* reverse order.                                                            *)
MethodConfidences == [low |-> 0, full |-> 100]

LowSets == {low \in SUBSET Elems(Methods) : Cardinality(low) <= MaxLowConfidence}

Reverse(s) == [i \in 1..Len(s) |-> s[Len(s) + 1 - i]]

ResultsOf(classified, low) ==
    LET all == [i \in 1..Len(Methods) |->
                    [method |-> Methods[i],
                     classification |-> classified[Methods[i]],
                     confidence |-> IF Methods[i] \in low
                                    THEN MethodConfidences.low
                                    ELSE MethodConfidences.full]]
    IN SelectSeq(all, LAMBDA r : r.classification # "absent")

NoOverall == [condition |-> None, votes |-> <<>>, base_confidence |-> 0, confidence |-> 0]

AnalyzeArch(supplied, voted) ==
    /\ classification_results' = supplied
    /\ overall' = [condition |-> voted.condition,
                   votes |-> voted.votes,
                   base_confidence |-> voted.confidence,
                   confidence |-> boost_confidence_with_agreement_analysis(
                                      supplied, voted.confidence)]

SuppliedResults(classified, low, reversed) ==
    IF reversed THEN Reverse(ResultsOf(classified, low)) ELSE ResultsOf(classified, low)

ClassifyArch ==
    /\ overall = NoOverall
    /\ \E classified \in [Elems(Methods) -> Classifications \cup {"absent"}],
          low \in LowSets, reversed \in BOOLEAN :
          /\ \A m \in low : classified[m] # "absent"
          /\ \E supplied \in {SuppliedResults(classified, low, reversed)} :
             \E votes \in {CollectVotes(supplied, weights)} :
             \E voted \in {determine_overall_arch_type(votes, SumOver(weights, DOMAIN weights))} :
                AnalyzeArch(supplied, voted)
    /\ UNCHANGED <<rulesVars, baseVars, diagVars, abbrVars, pressureVars>>

----------------------------------------------------------------------------
(* base_model.py: BaseFootModel.analyze, the error-normalizing wrapper.      *)
(* Wall-clock fields (execution_time, timestamp) are left out of the records. *)

MaxCalls == 2

SelfName == "Base Model"

Version == "1.0.0"

(* An image is None, something that is not an array, an array of one         *)
(* dimension, or a proper array.  The images argument is None or a list.      *)
ImageKinds == {"None", "not_ndarray", "ndarray_1d", "ndarray_2d"}

NoImages == [is_none |-> TRUE, items |-> <<>>]

ImageList(items) == [is_none |-> FALSE, items |-> items]

ImagesInputs == {NoImages, ImageList(<<>>)} \cup {ImageList(<<k>>) : k \in ImageKinds}
                    \cup {ImageList(<<"ndarray_2d", k>>) : k \in ImageKinds}

MeasurementsInputs == {None, "measurements"}

NoException == [kind |-> None, message |-> None]

Raise(kind, message) == [kind |-> kind, message |-> message]

BadImageMessage ==
    [None |-> <<"Image at index 0 is None", "Image at index 1 is None">>,
     not_ndarray |-> <<"Image at index 0 is not a numpy array",
                       "Image at index 1 is not a numpy array">>,
     ndarray_1d |-> <<"Image at index 0 has invalid dimensions: (224,)",
                      "Image at index 1 has invalid dimensions: (224,)">>]

RECURSIVE FirstBadImage(_, _)
FirstBadImage(items, i) ==
    IF i > Len(items) THEN NoException
    ELSE IF items[i] \in DOMAIN BadImageMessage
         THEN Raise("ValidationError", BadImageMessage[items[i]][i])
         ELSE FirstBadImage(items, i + 1)

validate_inputs(images, measurements) ==
    IF images.is_none \/ Len(images.items) = 0
    THEN Raise("ValidationError", "No images provided")
    ELSE IF measurements = None
    THEN Raise("ValidationError", "No measurements provided")
    ELSE FirstBadImage(images.items, 1)

(* What _analyze_implementation of a subclass can do: return a dict, return  *)
(* None, or raise.  The base class itself raises NotImplementedError.        *)
Returns(value) == [raises |-> NoException, returns_none |-> FALSE, returns |-> value]

ReturnsNone == [raises |-> NoException, returns_none |-> TRUE, returns |-> <<>>]

Raises(kind, message) ==
    [raises |-> Raise(kind, message), returns_none |-> FALSE, returns |-> <<>>]

ImplementationOutcomes ==
    {ReturnsNone,
     Returns([condition |-> "flat_feet"]),
     Returns([condition |-> "flat_feet", confidence |-> 65, model_name |-> "Custom"]),
     Raises("ModelError", "domain failure"),
     Raises("ValidationError", "bad measurement"),
     Raises("NotImplementedError",
            "Subclasses must implement _analyze_implementation method"),
     Raises("KeyError", "length")}

WithDefault(d, k, v) == IF k \in DOMAIN d THEN d ELSE SetItem(d, k, v)

post_process_results(results, is_none) ==
    IF is_none THEN <<>>
    ELSE WithDefault(WithDefault(WithDefault(results, "model_name", SelfName),
                                 "model_version", Version),
                     "confidence", 80)

create_error_response(error_type, error_message, with_traceback) ==
    [error |-> IF with_traceback
               THEN [type |-> error_type, message |-> error_message,
                     model_name |-> SelfName, traceback |-> "traceback"]
               ELSE [type |-> error_type, message |-> error_message,
                     model_name |-> SelfName],
     model_name |-> SelfName,
     model_version |-> Version,
     success |-> FALSE]

(* The except clauses of analyze, in order: the exception class each one     *)
(* names and the error type it reports.  Every exception kind of the model   *)
(* is a subclass of Exception.                                                *)
ExceptClausesWithoutCatchAll ==
    <<[class |-> "ValidationError", type |-> "validation_error", traceback |-> FALSE],
      [class |-> "ModelError", type |-> "model_error", traceback |-> FALSE]>>

ExceptClauses ==
    <<[class |-> "ValidationError", type |-> "validation_error", traceback |-> FALSE],
      [class |-> "ModelError", type |-> "model_error", traceback |-> FALSE],
      [class |-> "Exception", type |-> "unexpected_error", traceback |-> TRUE]>>

Catches(clause, exc) == clause.class = "Exception" \/ clause.class = exc.kind

(* The exception, if any, raised inside the try block *)
TryBody(images, measurements, implementation) ==
    IF validate_inputs(images, measurements) # NoException
    THEN validate_inputs(images, measurements)
    ELSE implementation.raises

BaseAnalyzeResult(exc, implementation) ==
    IF exc = NoException
    THEN [outcome |-> "returned", last_error |-> None,
          value |-> SetItem(post_process_results(implementation.returns,
                                                 implementation.returns_none),
                            "execution_metadata",
                            [model_name |-> SelfName, model_version |-> Version])]
    ELSE IF \E i \in 1..Len(ExceptClauses) : Catches(ExceptClauses[i], exc)
    THEN LET clause == ExceptClauses[CHOOSE i \in 1..Len(ExceptClauses) :
                            /\ Catches(ExceptClauses[i], exc)
                            /\ \A j \in 1..(i - 1) : ~Catches(ExceptClauses[j], exc)]
         IN [outcome |-> "returned", last_error |-> exc.message,
             value |-> create_error_response(clause.type, exc.message, clause.traceback)]
    ELSE [outcome |-> "raised", last_error |-> None, value |-> exc]

BaseAnalyze ==
    /\ Len(responses) < MaxCalls
    /\ \E images \in ImagesInputs, measurements \in MeasurementsInputs,
          implementation \in ImplementationOutcomes :
          \E exc \in {TryBody(images, measurements, implementation)} :
          \E result \in {BaseAnalyzeResult(exc, implementation)} :
             /\ last_error' = result.last_error
             /\ responses' = Append(responses,
                                [exc |-> exc, outcome |-> result.outcome,
                                 value |-> result.value])
    /\ UNCHANGED <<rulesVars, ensembleVars, diagVars, abbrVars, pressureVars>>

----------------------------------------------------------------------------
(* Strings whose content the code inspects are spelled out character by      *)
(* character, so that lower() and the substring test are computed.           *)

CharTable ==
    ("" :> <<>>)
    @@ ("normal" :> <<"n", "o", "r", "m", "a", "l">>)
    @@ ("flat" :> <<"f", "l", "a", "t">>)
    @@ ("pes planus" :> <<"p", "e", "s", " ", "p", "l", "a", "n", "u", "s">>)
    @@ ("high" :> <<"h", "i", "g", "h">>)
    @@ ("pes cavus" :> <<"p", "e", "s", " ", "c", "a", "v", "u", "s">>)
    @@ ("pronation" :> <<"p", "r", "o", "n", "a", "t", "i", "o", "n">>)
    @@ ("supination" :> <<"s", "u", "p", "i", "n", "a", "t", "i", "o", "n">>)
    @@ ("high_arch" :> <<"h", "i", "g", "h", "_", "a", "r", "c", "h">>)
    @@ ("flat_feet" :> <<"f", "l", "a", "t", "_", "f", "e", "e", "t">>)
    @@ ("normal_arch" :> <<"n", "o", "r", "m", "a", "l", "_", "a", "r", "c", "h">>)
    @@ ("flatfoot" :> <<"f", "l", "a", "t", "f", "o", "o", "t">>)
    @@ ("high arch" :> <<"h", "i", "g", "h", " ", "a", "r", "c", "h">>)
    @@ ("normal foot structure" :> <<"n", "o", "r", "m", "a", "l", " ", "f", "o", "o", "t", " ", "s", "t", "r", "u", "c", "t", "u", "r", "e">>)
    @@ ("Flatfoot" :> <<"F", "l", "a", "t", "f", "o", "o", "t">>)
    @@ ("rigid_arch" :> <<"r", "i", "g", "i", "d", "_", "a", "r", "c", "h">>)
    @@ ("unknown" :> <<"u", "n", "k", "n", "o", "w", "n">>)
    @@ ("neutral_pronation" :> <<"n", "e", "u", "t", "r", "a", "l", "_", "p", "r", "o", "n", "a", "t", "i", "o", "n">>)
    @@ ("overpronation" :> <<"o", "v", "e", "r", "p", "r", "o", "n", "a", "t", "i", "o", "n">>)
    @@ ("underpronation" :> <<"u", "n", "d", "e", "r", "p", "r", "o", "n", "a", "t", "i", "o", "n">>)
    @@ ("Normal Arch" :> <<"N", "o", "r", "m", "a", "l", " ", "A", "r", "c", "h">>)
    @@ ("Flat Feet (Pes Planus)" :> <<"F", "l", "a", "t", " ", "F", "e", "e", "t", " ", "(", "P", "e", "s", " ", "P", "l", "a", "n", "u", "s", ")">>)
    @@ ("High Arch (Pes Cavus)" :> <<"H", "i", "g", "h", " ", "A", "r", "c", "h", " ", "(", "P", "e", "s", " ", "C", "a", "v", "u", "s", ")">>)
    @@ ("Pes Planus" :> <<"P", "e", "s", " ", "P", "l", "a", "n", "u", "s">>)
    @@ ("Rigid Arch" :> <<"R", "i", "g", "i", "d", " ", "A", "r", "c", "h">>)
    @@ ("Analysis Error" :> <<"A", "n", "a", "l", "y", "s", "i", "s", " ", "E", "r", "r", "o", "r">>)
    @@ ("Neutral Pronation" :> <<"N", "e", "u", "t", "r", "a", "l", " ", "P", "r", "o", "n", "a", "t", "i", "o", "n">>)
    @@ ("Overpronation" :> <<"O", "v", "e", "r", "p", "r", "o", "n", "a", "t", "i", "o", "n">>)
    @@ ("Underpronation (Supination)" :> <<"U", "n", "d", "e", "r", "p", "r", "o", "n", "a", "t", "i", "o", "n", " ", "(", "S", "u", "p", "i", "n", "a", "t", "i", "o", "n", ")">>)
    @@ ("Normal Pressure Distribution" :> <<"N", "o", "r", "m", "a", "l", " ", "P", "r", "e", "s", "s", "u", "r", "e", " ", "D", "i", "s", "t", "r", "i", "b", "u", "t", "i", "o", "n">>)
    @@ ("Forefoot Pressure" :> <<"F", "o", "r", "e", "f", "o", "o", "t", " ", "P", "r", "e", "s", "s", "u", "r", "e">>)
    @@ ("No Structural Deformities" :> <<"N", "o", " ", "S", "t", "r", "u", "c", "t", "u", "r", "a", "l", " ", "D", "e", "f", "o", "r", "m", "i", "t", "i", "e", "s">>)
    @@ ("Bunion (Hallux Valgus)" :> <<"B", "u", "n", "i", "o", "n", " ", "(", "H", "a", "l", "l", "u", "x", " ", "V", "a", "l", "g", "u", "s", ")">>)
    @@ ("Normal Gait Pattern" :> <<"N", "o", "r", "m", "a", "l", " ", "G", "a", "i", "t", " ", "P", "a", "t", "t", "e", "r", "n">>)
    @@ ("Asymmetric Gait Pattern" :> <<"A", "s", "y", "m", "m", "e", "t", "r", "i", "c", " ", "G", "a", "i", "t", " ", "P", "a", "t", "t", "e", "r", "n">>)
    @@ ("Flat Feet" :> <<"F", "l", "a", "t", " ", "F", "e", "e", "t">>)
    @@ ("Neutral Foot Type" :> <<"N", "e", "u", "t", "r", "a", "l", " ", "F", "o", "o", "t", " ", "T", "y", "p", "e">>)
    @@ ("Flat Arch" :> <<"F", "l", "a", "t", " ", "A", "r", "c", "h">>)
    @@ ("High Arch" :> <<"H", "i", "g", "h", " ", "A", "r", "c", "h">>)
    @@ ("diabetes" :> <<"d", "i", "a", "b", "e", "t", "e", "s">>)
    @@ ("Diabetes" :> <<"D", "i", "a", "b", "e", "t", "e", "s">>)
    @@ ("neuropathy" :> <<"n", "e", "u", "r", "o", "p", "a", "t", "h", "y">>)
    @@ ("peripheral neuropathy" :> <<"p", "e", "r", "i", "p", "h", "e", "r", "a", "l", " ", "n", "e", "u", "r", "o", "p", "a", "t", "h", "y">>)
    @@ ("charcot" :> <<"c", "h", "a", "r", "c", "o", "t">>)
    @@ ("amputation" :> <<"a", "m", "p", "u", "t", "a", "t", "i", "o", "n">>)
    @@ ("ulcer" :> <<"u", "l", "c", "e", "r">>)
    @@ ("1st Met Head Off-loading" :> <<"1", "s", "t", " ", "M", "e", "t", " ", "H", "e", "a", "d", " ", "O", "f", "f", "-", "l", "o", "a", "d", "i", "n", "g">>)
    @@ ("5th Met Head Relief" :> <<"5", "t", "h", " ", "M", "e", "t", " ", "H", "e", "a", "d", " ", "R", "e", "l", "i", "e", "f">>)
    @@ ("AS" :> <<"A", "S">>)
    @@ ("AS (Arch Support)" :> <<"A", "S", " ", "(", "A", "r", "c", "h", " ", "S", "u", "p", "p", "o", "r", "t", ")">>)
    @@ ("Achilles Notch" :> <<"A", "c", "h", "i", "l", "l", "e", "s", " ", "N", "o", "t", "c", "h">>)
    @@ ("Amputation Accommodation" :> <<"A", "m", "p", "u", "t", "a", "t", "i", "o", "n", " ", "A", "c", "c", "o", "m", "m", "o", "d", "a", "t", "i", "o", "n">>)
    @@ ("Anterior Lateral Wedge" :> <<"A", "n", "t", "e", "r", "i", "o", "r", " ", "L", "a", "t", "e", "r", "a", "l", " ", "W", "e", "d", "g", "e">>)
    @@ ("Anterior Medial Wedge" :> <<"A", "n", "t", "e", "r", "i", "o", "r", " ", "M", "e", "d", "i", "a", "l", " ", "W", "e", "d", "g", "e">>)
    @@ ("Arch Cushioning" :> <<"A", "r", "c", "h", " ", "C", "u", "s", "h", "i", "o", "n", "i", "n", "g">>)
    @@ ("Bunion Shield" :> <<"B", "u", "n", "i", "o", "n", " ", "S", "h", "i", "e", "l", "d">>)
    @@ ("Calcaneal Spur Accommodation" :> <<"C", "a", "l", "c", "a", "n", "e", "a", "l", " ", "S", "p", "u", "r", " ", "A", "c", "c", "o", "m", "m", "o", "d", "a", "t", "i", "o", "n">>)
    @@ ("Carbon Plate" :> <<"C", "a", "r", "b", "o", "n", " ", "P", "l", "a", "t", "e">>)
    @@ ("Cuboid Off-Load" :> <<"C", "u", "b", "o", "i", "d", " ", "O", "f", "f", "-", "L", "o", "a", "d">>)
    @@ ("Cushioning" :> <<"C", "u", "s", "h", "i", "o", "n", "i", "n", "g">>)
    @@ ("Fascia Groove" :> <<"F", "a", "s", "c", "i", "a", " ", "G", "r", "o", "o", "v", "e">>)
    @@ ("Full Length Lift" :> <<"F", "u", "l", "l", " ", "L", "e", "n", "g", "t", "h", " ", "L", "i", "f", "t">>)
    @@ ("Hallux Separator" :> <<"H", "a", "l", "l", "u", "x", " ", "S", "e", "p", "a", "r", "a", "t", "o", "r">>)
    @@ ("Heel Cup" :> <<"H", "e", "e", "l", " ", "C", "u", "p">>)
    @@ ("Heel Cushion Pad" :> <<"H", "e", "e", "l", " ", "C", "u", "s", "h", "i", "o", "n", " ", "P", "a", "d">>)
    @@ ("Heel Height Pad" :> <<"H", "e", "e", "l", " ", "H", "e", "i", "g", "h", "t", " ", "P", "a", "d">>)
    @@ ("Heel Lift Pad" :> <<"H", "e", "e", "l", " ", "L", "i", "f", "t", " ", "P", "a", "d">>)
    @@ ("Heel Spur Pad" :> <<"H", "e", "e", "l", " ", "S", "p", "u", "r", " ", "P", "a", "d">>)
    @@ ("Kinetic Wedge" :> <<"K", "i", "n", "e", "t", "i", "c", " ", "W", "e", "d", "g", "e">>)
    @@ ("Lateral Border Support" :> <<"L", "a", "t", "e", "r", "a", "l", " ", "B", "o", "r", "d", "e", "r", " ", "S", "u", "p", "p", "o", "r", "t">>)
    @@ ("Lateral Forefoot Spacer" :> <<"L", "a", "t", "e", "r", "a", "l", " ", "F", "o", "r", "e", "f", "o", "o", "t", " ", "S", "p", "a", "c", "e", "r">>)
    @@ ("Lateral Midfoot Support" :> <<"L", "a", "t", "e", "r", "a", "l", " ", "M", "i", "d", "f", "o", "o", "t", " ", "S", "u", "p", "p", "o", "r", "t">>)
    @@ ("MAS" :> <<"M", "A", "S">>)
    @@ ("MAS (Medial Arch Support)" :> <<"M", "A", "S", " ", "(", "M", "e", "d", "i", "a", "l", " ", "A", "r", "c", "h", " ", "S", "u", "p", "p", "o", "r", "t", ")">>)
    @@ ("MP" :> <<"M", "P">>)
    @@ ("MPL" :> <<"M", "P", "L">>)
    @@ ("Medial Arch Relief" :> <<"M", "e", "d", "i", "a", "l", " ", "A", "r", "c", "h", " ", "R", "e", "l", "i", "e", "f">>)
    @@ ("Medial Heel Wedge" :> <<"M", "e", "d", "i", "a", "l", " ", "H", "e", "e", "l", " ", "W", "e", "d", "g", "e">>)
    @@ ("Metatarsal Bar" :> <<"M", "e", "t", "a", "t", "a", "r", "s", "a", "l", " ", "B", "a", "r">>)
    @@ ("Metatarsal Pad" :> <<"M", "e", "t", "a", "t", "a", "r", "s", "a", "l", " ", "P", "a", "d">>)
    @@ ("Morton's Extension" :> <<"M", "o", "r", "t", "o", "n", "'", "s", " ", "E", "x", "t", "e", "n", "s", "i", "o", "n">>)
    @@ ("Morton's to toe Extension (Stiff plate)" :> <<"M", "o", "r", "t", "o", "n", "'", "s", " ", "t", "o", " ", "t", "o", "e", " ", "E", "x", "t", "e", "n", "s", "i", "o", "n", " ", "(", "S", "t", "i", "f", "f", " ", "p", "l", "a", "t", "e", ")">>)
    @@ ("NAS" :> <<"N", "A", "S">>)
    @@ ("NAS (Navicular Arch Support)" :> <<"N", "A", "S", " ", "(", "N", "a", "v", "i", "c", "u", "l", "a", "r", " ", "A", "r", "c", "h", " ", "S", "u", "p", "p", "o", "r", "t", ")">>)
    @@ ("Navicular Off-loading" :> <<"N", "a", "v", "i", "c", "u", "l", "a", "r", " ", "O", "f", "f", "-", "l", "o", "a", "d", "i", "n", "g">>)
    @@ ("Navicular Relief Cut-out" :> <<"N", "a", "v", "i", "c", "u", "l", "a", "r", " ", "R", "e", "l", "i", "e", "f", " ", "C", "u", "t", "-", "o", "u", "t">>)
    @@ ("Neuroma Pad" :> <<"N", "e", "u", "r", "o", "m", "a", " ", "P", "a", "d">>)
    @@ ("Off-Loading" :> <<"O", "f", "f", "-", "L", "o", "a", "d", "i", "n", "g">>)
    @@ ("PAW (Pronator Anterior Wedge)" :> <<"P", "A", "W", " ", "(", "P", "r", "o", "n", "a", "t", "o", "r", " ", "A", "n", "t", "e", "r", "i", "o", "r", " ", "W", "e", "d", "g", "e", ")">>)
    @@ ("PPW (Pronator Posterior Wedge)" :> <<"P", "P", "W", " ", "(", "P", "r", "o", "n", "a", "t", "o", "r", " ", "P", "o", "s", "t", "e", "r", "i", "o", "r", " ", "W", "e", "d", "g", "e", ")">>)
    @@ ("Posterior Lateral Wedge" :> <<"P", "o", "s", "t", "e", "r", "i", "o", "r", " ", "L", "a", "t", "e", "r", "a", "l", " ", "W", "e", "d", "g", "e">>)
    @@ ("Posterior Medial Wedge" :> <<"P", "o", "s", "t", "e", "r", "i", "o", "r", " ", "M", "e", "d", "i", "a", "l", " ", "W", "e", "d", "g", "e">>)
    @@ ("Pressure Distribution Insole" :> <<"P", "r", "e", "s", "s", "u", "r", "e", " ", "D", "i", "s", "t", "r", "i", "b", "u", "t", "i", "o", "n", " ", "I", "n", "s", "o", "l", "e">>)
    @@ ("Pressure Redistribution" :> <<"P", "r", "e", "s", "s", "u", "r", "e", " ", "R", "e", "d", "i", "s", "t", "r", "i", "b", "u", "t", "i", "o", "n">>)
    @@ ("Pressure Relief Pad" :> <<"P", "r", "e", "s", "s", "u", "r", "e", " ", "R", "e", "l", "i", "e", "f", " ", "P", "a", "d">>)
    @@ ("Rigid Midfoot Support" :> <<"R", "i", "g", "i", "d", " ", "M", "i", "d", "f", "o", "o", "t", " ", "S", "u", "p", "p", "o", "r", "t">>)
    @@ ("Rocker Sole" :> <<"R", "o", "c", "k", "e", "r", " ", "S", "o", "l", "e">>)
    @@ ("SAW (Supinator Anterior Wedge)" :> <<"S", "A", "W", " ", "(", "S", "u", "p", "i", "n", "a", "t", "o", "r", " ", "A", "n", "t", "e", "r", "i", "o", "r", " ", "W", "e", "d", "g", "e", ")">>)
    @@ ("SPW (Supinator Posterior Wedge)" :> <<"S", "P", "W", " ", "(", "S", "u", "p", "i", "n", "a", "t", "o", "r", " ", "P", "o", "s", "t", "e", "r", "i", "o", "r", " ", "W", "e", "d", "g", "e", ")">>)
    @@ ("Sesamoid Relief Pad" :> <<"S", "e", "s", "a", "m", "o", "i", "d", " ", "R", "e", "l", "i", "e", "f", " ", "P", "a", "d">>)
    @@ ("Shock Absorbing Heel" :> <<"S", "h", "o", "c", "k", " ", "A", "b", "s", "o", "r", "b", "i", "n", "g", " ", "H", "e", "e", "l">>)
    @@ ("Soft Cushioning" :> <<"S", "o", "f", "t", " ", "C", "u", "s", "h", "i", "o", "n", "i", "n", "g">>)
    @@ ("Toe Crest" :> <<"T", "o", "e", " ", "C", "r", "e", "s", "t">>)
    @@ ("Toe Loop" :> <<"T", "o", "e", " ", "L", "o", "o", "p">>)
    @@ ("Toe filler" :> <<"T", "o", "e", " ", "f", "i", "l", "l", "e", "r">>)
    @@ ("Toe part Cushioning" :> <<"T", "o", "e", " ", "p", "a", "r", "t", " ", "C", "u", "s", "h", "i", "o", "n", "i", "n", "g">>)
    @@ ("Total Contact Orthotic" :> <<"T", "o", "t", "a", "l", " ", "C", "o", "n", "t", "a", "c", "t", " ", "O", "r", "t", "h", "o", "t", "i", "c">>)
    @@ ("Ulcer Relief Aperture" :> <<"U", "l", "c", "e", "r", " ", "R", "e", "l", "i", "e", "f", " ", "A", "p", "e", "r", "t", "u", "r", "e">>)
    @@ ("Valgus cuboid pad" :> <<"V", "a", "l", "g", "u", "s", " ", "c", "u", "b", "o", "i", "d", " ", "p", "a", "d">>)
    @@ ("MT Bar" :> <<"M", "T", " ", "B", "a", "r">>)
    @@ ("SAW" :> <<"S", "A", "W">>)
    @@ ("PAW" :> <<"P", "A", "W">>)
    @@ ("SPW" :> <<"S", "P", "W">>)
    @@ ("PPW" :> <<"P", "P", "W">>)
    @@ ("LLD" :> <<"L", "L", "D">>)
    @@ ("1MT" :> <<"1", "M", "T">>)
    @@ ("5MT" :> <<"5", "M", "T">>)
    @@ (" MP " :> <<" ", "M", "P", " ">>)
    @@ ("(AS)" :> <<"(", "A", "S", ")">>)
    @@ ("MT Bar (Metatarsal Bar)" :> <<"M", "T", " ", "B", "a", "r", " ", "(", "M", "e", "t", "a", "t", "a", "r", "s", "a", "l", " ", "B", "a", "r", ")">>)
    @@ ("as (Arch Support)" :> <<"a", "s", " ", "(", "A", "r", "c", "h", " ", "S", "u", "p", "p", "o", "r", "t", ")">>)
    @@ ("diabetic foot" :> <<"d", "i", "a", "b", "e", "t", "i", "c", " ", "f", "o", "o", "t">>)
    @@ ("peripheral vascular disease" :> <<"p", "e", "r", "i", "p", "h", "e", "r", "a", "l", " ", "v", "a", "s", "c", "u", "l", "a", "r", " ", "d", "i", "s", "e", "a", "s", "e">>)
    @@ ("midfoot arthritis" :> <<"m", "i", "d", "f", "o", "o", "t", " ", "a", "r", "t", "h", "r", "i", "t", "i", "s">>)
    @@ ("rheumatoid arthritis" :> <<"r", "h", "e", "u", "m", "a", "t", "o", "i", "d", " ", "a", "r", "t", "h", "r", "i", "t", "i", "s">>)
    @@ ("osteoarthritis" :> <<"o", "s", "t", "e", "o", "a", "r", "t", "h", "r", "i", "t", "i", "s">>)
    @@ ("surgical scar" :> <<"s", "u", "r", "g", "i", "c", "a", "l", " ", "s", "c", "a", "r">>)
    @@ ("fusion" :> <<"f", "u", "s", "i", "o", "n">>)
    @@ ("implant" :> <<"i", "m", "p", "l", "a", "n", "t">>)
    @@ ("gouty arthritis" :> <<"g", "o", "u", "t", "y", " ", "a", "r", "t", "h", "r", "i", "t", "i", "s">>)
    @@ ("tophi" :> <<"t", "o", "p", "h", "i">>)
    @@ ("numbness" :> <<"n", "u", "m", "b", "n", "e", "s", "s">>)
    @@ ("tingling" :> <<"t", "i", "n", "g", "l", "i", "n", "g">>)
    @@ ("Arthritis" :> <<"A", "r", "t", "h", "r", "i", "t", "i", "s">>)
    @@ ("Previous foot surgery" :> <<"P", "r", "e", "v", "i", "o", "u", "s", " ", "f", "o", "o", "t", " ", "s", "u", "r", "g", "e", "r", "y">>)
    @@ ("Gout" :> <<"G", "o", "u", "t">>)
    @@ ("Peripheral Neuropathy" :> <<"P", "e", "r", "i", "p", "h", "e", "r", "a", "l", " ", "N", "e", "u", "r", "o", "p", "a", "t", "h", "y">>)
    @@ ("Underpronation" :> <<"U", "n", "d", "e", "r", "p", "r", "o", "n", "a", "t", "i", "o", "n">>)

Chars(s) == CharTable[s]

LowerTable ==
    ("A" :> "a")
    @@ ("B" :> "b")
    @@ ("C" :> "c")
    @@ ("D" :> "d")
    @@ ("E" :> "e")
    @@ ("F" :> "f")
    @@ ("G" :> "g")
    @@ ("H" :> "h")
    @@ ("I" :> "i")
    @@ ("J" :> "j")
    @@ ("K" :> "k")
    @@ ("L" :> "l")
    @@ ("M" :> "m")
    @@ ("N" :> "n")
    @@ ("O" :> "o")
    @@ ("P" :> "p")
    @@ ("Q" :> "q")
    @@ ("R" :> "r")
    @@ ("S" :> "s")
    @@ ("T" :> "t")
    @@ ("U" :> "u")
    @@ ("V" :> "v")
    @@ ("W" :> "w")
    @@ ("X" :> "x")
    @@ ("Y" :> "y")
    @@ ("Z" :> "z")

LowerChar(c) == IF c \in DOMAIN LowerTable THEN LowerTable[c] ELSE c

Lower(chars) == [i \in 1..Len(chars) |-> LowerChar(chars[i])]

Contains(haystack, needle) ==
    \E i \in 0..(Len(haystack) - Len(needle)) :
        \A j \in 1..Len(needle) : haystack[i + j] = needle[j]

(* s.lower(), kept per string *)
LowerCharTable == [s \in DOMAIN CharTable |-> Lower(CharTable[s])]

(* needle in s.lower() *)
InLower(needle, s) == Contains(LowerCharTable[s], Chars(needle))

(* needle in s *)
InString(needle, s) == Contains(Chars(s), Chars(needle))

----------------------------------------------------------------------------
(* diagnosis_rules.py: apply_medical_rules *)

Zones == {"forefoot", "midfoot", "hindfoot"}

ArchTypes == {"Normal Arch", "Flat Arch", "High Arch"}

ArchDegrees == 1..4

Alignments == {"neutral", "valgus", "varus"}

(* Arguments the rule engine is applied to *)
PathologyInputs ==
    {<<>>, <<"Plantar Fasciitis">>, <<"Metatarsalgia">>,
     <<"Plantar Fasciitis", "Accessory Navicular">>, <<"Bunion (Hallux Valgus)">>}

PatientContexts ==
    {<<>>,
     [medical_history |-> <<>>],
     [medical_history |-> <<"diabetes", "peripheral neuropathy">>],
     [medical_history |-> <<"Diabetes", "neuropathy">>],
     [medical_history |-> <<"charcot">>, previous_foot_pain |-> TRUE],
     [medical_history |-> <<"amputation">>, leg_length_discrepancy |-> TRUE,
      ulcer_history |-> TRUE]}

NoArgs == [arch_type |-> None]

Rec(rec_name, category, confidence, primary) ==
    AddCall(rec_name, category, confidence, primary)

(* if patient_context: (None and the empty dict are both false) *)
HasContext(patient_context) == patient_context # <<>>

(* "word" in [x.lower() for x in patient_context.get("medical_history", [])] *)
InHistory(word, patient_context) ==
    LET history == Get(patient_context, "medical_history", <<>>)
    IN \E i \in 1..Len(history) : Lower(Chars(history[i])) = Chars(word)

ArchRules_degree_3_or_more(arch_type, arch_degree, patient_context) ==
    IF arch_type = "Normal Arch"
    THEN IF HasContext(patient_context) /\ Get(patient_context, "previous_foot_pain", FALSE)
         THEN <<Rec("AS (Arch Support)", "intrinsic", 70, FALSE)>>
         ELSE <<>>
    ELSE IF arch_type = "Flat Arch"
    THEN IF arch_degree = 1
         THEN <<Rec("AS (Arch Support)", "intrinsic", 75, TRUE)>>
         ELSE IF arch_degree = 2
         THEN <<Rec("AS (Arch Support)", "intrinsic", 85, TRUE),
                Rec("MAS (Medial Arch Support)", "intrinsic", 80, TRUE)>>
         ELSE IF arch_degree >= 3
         THEN <<Rec("MAS (Medial Arch Support)", "intrinsic", 90, TRUE),
                Rec("NAS (Navicular Arch Support)", "intrinsic", 85, TRUE)>>
         ELSE IF arch_degree = 4
         THEN <<Rec("MAS (Medial Arch Support)", "intrinsic", 95, TRUE),
                Rec("NAS (Navicular Arch Support)", "intrinsic", 95, TRUE)>>
         ELSE <<>>
    ELSE IF arch_type = "High Arch"
    THEN (IF arch_degree >= 2
          THEN <<Rec("Soft Cushioning", "intrinsic", 80, TRUE)>> ELSE <<>>)
         \o (IF arch_degree >= 3
             THEN <<Rec("Heel Cushion Pad", "intrinsic", 85, TRUE),
                    Rec("Metatarsal Pad", "intrinsic", 80, FALSE)>>
             ELSE <<>>)
    ELSE <<>>

ArchRules(arch_type, arch_degree, patient_context) ==
    IF arch_type = "Normal Arch"
    THEN IF HasContext(patient_context) /\ Get(patient_context, "previous_foot_pain", FALSE)
         THEN <<Rec("AS (Arch Support)", "intrinsic", 70, FALSE)>>
         ELSE <<>>
    ELSE IF arch_type = "Flat Arch"
    THEN IF arch_degree = 1
         THEN <<Rec("AS (Arch Support)", "intrinsic", 75, TRUE)>>
         ELSE IF arch_degree = 2
         THEN <<Rec("AS (Arch Support)", "intrinsic", 85, TRUE),
                Rec("MAS (Medial Arch Support)", "intrinsic", 80, TRUE)>>
         ELSE IF arch_degree = 3
         THEN <<Rec("MAS (Medial Arch Support)", "intrinsic", 90, TRUE),
                Rec("NAS (Navicular Arch Support)", "intrinsic", 85, TRUE)>>
         ELSE IF arch_degree = 4
         THEN <<Rec("MAS (Medial Arch Support)", "intrinsic", 95, TRUE),
                Rec("NAS (Navicular Arch Support)", "intrinsic", 95, TRUE)>>
         ELSE <<>>
    ELSE IF arch_type = "High Arch"
    THEN (IF arch_degree >= 2
          THEN <<Rec("Soft Cushioning", "intrinsic", 80, TRUE)>> ELSE <<>>)
         \o (IF arch_degree >= 3
             THEN <<Rec("Heel Cushion Pad", "intrinsic", 85, TRUE),
                    Rec("Metatarsal Pad", "intrinsic", 80, FALSE)>>
             ELSE <<>>)
    ELSE <<>>

ArchFlags(arch_type, arch_degree) ==
    IF arch_type = "Flat Arch" /\ arch_degree = 4 THEN {"severe_pes_planus"}
    ELSE IF arch_type = "High Arch" /\ arch_degree = 4 THEN {"severe_pes_cavus"}
    ELSE {}

confidence_val_without_degree(arch_degree) == 75

(* confidence_val = 0.75 + (0.05 * arch_degree) *)
confidence_val(arch_degree) == 75 + 5 * arch_degree

ForefootRules(alignment, arch_degree) ==
    IF Get(alignment, "forefoot", None) = "valgus"
    THEN <<Rec("Anterior Medial Wedge", "extrinsic", confidence_val(arch_degree), TRUE)>>
         \o (IF arch_degree >= 3
             THEN <<Rec("SAW (Supinator Anterior Wedge)", "extrinsic", 85, arch_degree >= 3)>>
             ELSE <<>>)
    ELSE IF Get(alignment, "forefoot", None) = "varus"
    THEN <<Rec("Anterior Lateral Wedge", "extrinsic", confidence_val(arch_degree), TRUE)>>
         \o (IF arch_degree >= 3
             THEN <<Rec("PAW (Pronator Anterior Wedge)", "extrinsic", 85, arch_degree >= 3)>>
             ELSE <<>>)
    ELSE <<>>

MidfootRules(alignment, arch_type, arch_degree) ==
    IF Get(alignment, "midfoot", None) = "valgus"
    THEN <<Rec("MAS (Medial Arch Support)", "intrinsic", confidence_val(arch_degree), TRUE)>>
         \o (IF arch_degree >= 2
             THEN <<Rec("NAS (Navicular Arch Support)", "intrinsic", 85, TRUE)>>
             ELSE <<>>)
    ELSE IF Get(alignment, "midfoot", None) = "varus" /\ InString("High Arch", arch_type)
    THEN <<Rec("AS (Arch Support)", "intrinsic", 75, TRUE)>>
    ELSE <<>>

HindfootRules_intrinsic_wedge(alignment, arch_degree) ==
    IF Get(alignment, "hindfoot", None) = "valgus"
    THEN <<Rec("Posterior Medial Wedge", "intrinsic", confidence_val(arch_degree), TRUE)>>
         \o (IF arch_degree >= 3
             THEN <<Rec("SPW (Supinator Posterior Wedge)", "extrinsic", 85, TRUE)>>
             ELSE <<>>)
    ELSE IF Get(alignment, "hindfoot", None) = "varus"
    THEN <<Rec("Posterior Lateral Wedge", "extrinsic", confidence_val(arch_degree), TRUE)>>
         \o (IF arch_degree >= 3
             THEN <<Rec("PPW (Pronator Posterior Wedge)", "extrinsic", 85, TRUE)>>
             ELSE <<>>)
    ELSE <<>>

HindfootRules(alignment, arch_degree) ==
    IF Get(alignment, "hindfoot", None) = "valgus"
    THEN <<Rec("Posterior Medial Wedge", "extrinsic", confidence_val(arch_degree), TRUE)>>
         \o (IF arch_degree >= 3
             THEN <<Rec("SPW (Supinator Posterior Wedge)", "extrinsic", 85, TRUE)>>
             ELSE <<>>)
    ELSE IF Get(alignment, "hindfoot", None) = "varus"
    THEN <<Rec("Posterior Lateral Wedge", "extrinsic", confidence_val(arch_degree), TRUE)>>
         \o (IF arch_degree >= 3
             THEN <<Rec("PPW (Pronator Posterior Wedge)", "extrinsic", 85, TRUE)>>
             ELSE <<>>)
    ELSE <<>>

pathology_map ==
    ("Claw Toe" :>
         <<[rec_name |-> "Toe Crest", category |-> "intrinsic", confidence |-> 85, primary |-> TRUE],
           [rec_name |-> "Cushioning", category |-> "intrinsic", confidence |-> 80, primary |-> FALSE]>>)
    @@ ("Hammer Toe" :>
         <<[rec_name |-> "Toe Crest", category |-> "intrinsic", confidence |-> 85, primary |-> TRUE],
           [rec_name |-> "Toe Loop", category |-> "extrinsic", confidence |-> 75, primary |-> FALSE]>>)
    @@ ("Mallet Toe" :>
         <<[rec_name |-> "Toe Crest", category |-> "intrinsic", confidence |-> 80, primary |-> TRUE]>>)
    @@ ("Tennis Toe" :>
         <<[rec_name |-> "Toe part Cushioning", category |-> "intrinsic", confidence |-> 75, primary |-> TRUE]>>)
    @@ ("Skiers Toe" :>
         <<[rec_name |-> "Toe part Cushioning", category |-> "intrinsic", confidence |-> 75, primary |-> TRUE]>>)
    @@ ("Turf Toe" :>
         <<[rec_name |-> "MP", category |-> "intrinsic", confidence |-> 85, primary |-> TRUE],
           [rec_name |-> "MPL", category |-> "intrinsic", confidence |-> 80, primary |-> FALSE],
           [rec_name |-> "Morton's Extension", category |-> "extrinsic", confidence |-> 90, primary |-> TRUE]>>)
    @@ ("Hallux Valgus" :>
         <<[rec_name |-> "AS", category |-> "intrinsic", confidence |-> 70, primary |-> FALSE],
           [rec_name |-> "Anterior Medial Wedge", category |-> "extrinsic", confidence |-> 85, primary |-> TRUE],
           [rec_name |-> "Hallux Separator", category |-> "intrinsic", confidence |-> 80, primary |-> TRUE]>>)
    @@ ("Hallux Rigidus" :>
         <<[rec_name |-> "Morton's to toe Extension (Stiff plate)", category |-> "extrinsic", confidence |-> 95, primary |-> TRUE],
           [rec_name |-> "Kinetic Wedge", category |-> "extrinsic", confidence |-> 85, primary |-> TRUE]>>)
    @@ ("Hallux Limitus" :>
         <<[rec_name |-> "Morton's Extension", category |-> "extrinsic", confidence |-> 90, primary |-> TRUE],
           [rec_name |-> "Rocker Sole", category |-> "extrinsic", confidence |-> 85, primary |-> FALSE]>>)
    @@ ("Metatarsalgia" :>
         <<[rec_name |-> "MP", category |-> "intrinsic", confidence |-> 90, primary |-> TRUE],
           [rec_name |-> "MPL", category |-> "intrinsic", confidence |-> 85, primary |-> TRUE],
           [rec_name |-> "Metatarsal Bar", category |-> "extrinsic", confidence |-> 80, primary |-> FALSE]>>)
    @@ ("Bunion Pain" :>
         <<[rec_name |-> "AS", category |-> "intrinsic", confidence |-> 70, primary |-> FALSE],
           [rec_name |-> "Anterior Medial Wedge", category |-> "extrinsic", confidence |-> 85, primary |-> TRUE],
           [rec_name |-> "Bunion Shield", category |-> "intrinsic", confidence |-> 90, primary |-> TRUE]>>)
    @@ ("Bunionette" :>
         <<[rec_name |-> "5th Met Head Relief", category |-> "intrinsic", confidence |-> 90, primary |-> TRUE],
           [rec_name |-> "Lateral Forefoot Spacer", category |-> "intrinsic", confidence |-> 85, primary |-> FALSE]>>)
    @@ ("Morton Neuroma" :>
         <<[rec_name |-> "MP", category |-> "intrinsic", confidence |-> 90, primary |-> TRUE],
           [rec_name |-> "MPL", category |-> "intrinsic", confidence |-> 85, primary |-> TRUE],
           [rec_name |-> "Metatarsal Bar", category |-> "extrinsic", confidence |-> 80, primary |-> FALSE],
           [rec_name |-> "Neuroma Pad", category |-> "intrinsic", confidence |-> 95, primary |-> TRUE]>>)
    @@ ("Sesamoiditis" :>
         <<[rec_name |-> "Sesamoid Relief Pad", category |-> "intrinsic", confidence |-> 95, primary |-> TRUE],
           [rec_name |-> "1st Met Head Off-loading", category |-> "intrinsic", confidence |-> 90, primary |-> TRUE]>>)
    @@ ("Midfoot Arthritis" :>
         <<[rec_name |-> "AS", category |-> "intrinsic", confidence |-> 85, primary |-> TRUE],
           [rec_name |-> "Fascia Groove", category |-> "intrinsic", confidence |-> 80, primary |-> FALSE],
           [rec_name |-> "Carbon Plate", category |-> "intrinsic", confidence |-> 90, primary |-> TRUE]>>)
    @@ ("Arch Pain" :>
         <<[rec_name |-> "AS", category |-> "intrinsic", confidence |-> 90, primary |-> TRUE],
           [rec_name |-> "Arch Cushioning", category |-> "intrinsic", confidence |-> 85, primary |-> FALSE]>>)
    @@ ("Kohler's disease" :>
         <<[rec_name |-> "NAS", category |-> "intrinsic", confidence |-> 95, primary |-> TRUE],
           [rec_name |-> "Navicular Off-loading", category |-> "intrinsic", confidence |-> 90, primary |-> TRUE]>>)
    @@ ("Peroneal Tendon Enteropathy" :>
         <<[rec_name |-> "Posterior Lateral Wedge", category |-> "extrinsic", confidence |-> 85, primary |-> TRUE],
           [rec_name |-> "Lateral Border Support", category |-> "intrinsic", confidence |-> 80, primary |-> FALSE]>>)
    @@ ("Cuboid Syndrome" :>
         <<[rec_name |-> "Valgus cuboid pad", category |-> "intrinsic", confidence |-> 90, primary |-> TRUE],
           [rec_name |-> "Cuboid Off-Load", category |-> "intrinsic", confidence |-> 90, primary |-> TRUE],
           [rec_name |-> "Lateral Midfoot Support", category |-> "intrinsic", confidence |-> 80, primary |-> FALSE]>>)
    @@ ("Accessory Navicular" :>
         <<[rec_name |-> "NAS", category |-> "intrinsic", confidence |-> 90, primary |-> TRUE],
           [rec_name |-> "Posterior Medial Wedge", category |-> "extrinsic", confidence |-> 85, primary |-> TRUE],
           [rec_name |-> "Navicular Relief Cut-out", category |-> "intrinsic", confidence |-> 95, primary |-> TRUE]>>)
    @@ ("Navicular Pain" :>
         <<[rec_name |-> "NAS", category |-> "intrinsic", confidence |-> 85, primary |-> TRUE],
           [rec_name |-> "Posterior Medial Wedge", category |-> "extrinsic", confidence |-> 80, primary |-> FALSE],
           [rec_name |-> "Navicular Off-loading", category |-> "intrinsic", confidence |-> 90, primary |-> TRUE]>>)
    @@ ("Lisfranc Injury" :>
         <<[rec_name |-> "Carbon Plate", category |-> "intrinsic", confidence |-> 95, primary |-> TRUE],
           [rec_name |-> "AS", category |-> "intrinsic", confidence |-> 85, primary |-> TRUE],
           [rec_name |-> "Rigid Midfoot Support", category |-> "intrinsic", confidence |-> 90, primary |-> TRUE]>>)
    @@ ("Plantar Fasciitis" :>
         <<[rec_name |-> "Heel Cushion Pad", category |-> "intrinsic", confidence |-> 90, primary |-> TRUE],
           [rec_name |-> "Fascia Groove", category |-> "intrinsic", confidence |-> 85, primary |-> TRUE],
           [rec_name |-> "Calcaneal Spur Accommodation", category |-> "intrinsic", confidence |-> 80, primary |-> FALSE]>>)
    @@ ("Heel Spur" :>
         <<[rec_name |-> "Heel Spur Pad", category |-> "intrinsic", confidence |-> 95, primary |-> TRUE],
           [rec_name |-> "Calcaneal Spur Accommodation", category |-> "intrinsic", confidence |-> 90, primary |-> TRUE]>>)
    @@ ("Posterior Tibialis Tendinitis" :>
         <<[rec_name |-> "AS", category |-> "intrinsic", confidence |-> 85, primary |-> TRUE],
           [rec_name |-> "MAS", category |-> "intrinsic", confidence |-> 90, primary |-> TRUE],
           [rec_name |-> "Medial Heel Wedge", category |-> "extrinsic", confidence |-> 85, primary |-> TRUE]>>)
    @@ ("Tarsal Tunnel Syndrome" :>
         <<[rec_name |-> "AS", category |-> "intrinsic", confidence |-> 80, primary |-> FALSE],
           [rec_name |-> "Heel Lift Pad", category |-> "intrinsic", confidence |-> 85, primary |-> TRUE],
           [rec_name |-> "Medial Arch Relief", category |-> "intrinsic", confidence |-> 90, primary |-> TRUE]>>)
    @@ ("Calcaneus Fx" :>
         <<[rec_name |-> "Heel Lift Pad", category |-> "intrinsic", confidence |-> 95, primary |-> TRUE],
           [rec_name |-> "Total Contact Orthotic", category |-> "intrinsic", confidence |-> 90, primary |-> TRUE]>>)
    @@ ("Heel Fat Pad Atrophy" :>
         <<[rec_name |-> "Heel Cushion Pad", category |-> "intrinsic", confidence |-> 95, primary |-> TRUE],
           [rec_name |-> "Shock Absorbing Heel", category |-> "extrinsic", confidence |-> 90, primary |-> TRUE]>>)
    @@ ("Achilles Tendinitis" :>
         <<[rec_name |-> "Heel Cushion Pad", category |-> "intrinsic", confidence |-> 85, primary |-> TRUE],
           [rec_name |-> "Heel Lift Pad", category |-> "intrinsic", confidence |-> 90, primary |-> TRUE],
           [rec_name |-> "Achilles Notch", category |-> "extrinsic", confidence |-> 80, primary |-> FALSE]>>)
    @@ ("Haglund's Deformity" :>
         <<[rec_name |-> "Heel Lift Pad", category |-> "intrinsic", confidence |-> 85, primary |-> TRUE],
           [rec_name |-> "Achilles Notch", category |-> "extrinsic", confidence |-> 95, primary |-> TRUE],
           [rec_name |-> "Heel Cup", category |-> "intrinsic", confidence |-> 90, primary |-> TRUE]>>)
    @@ ("Sever's Disease" :>
         <<[rec_name |-> "Heel Lift Pad", category |-> "intrinsic", confidence |-> 90, primary |-> TRUE],
           [rec_name |-> "Heel Cushion Pad", category |-> "intrinsic", confidence |-> 90, primary |-> TRUE],
           [rec_name |-> "Achilles Notch", category |-> "extrinsic", confidence |-> 85, primary |-> FALSE]>>)

RECURSIVE PathologyRules(_, _)
PathologyRules(detected_pathologies, n) ==
    IF n = 0 THEN <<>>
    ELSE PathologyRules(detected_pathologies, n - 1)
            \o Get(pathology_map, detected_pathologies[n], <<>>)

other_conditions_map ==
    ("Abnormal peak pressure" :>
         <<[rec_name |-> "Soft Cushioning", category |-> "intrinsic", confidence |-> 85, primary |-> TRUE],
           [rec_name |-> "Pressure Relief Pad", category |-> "intrinsic", confidence |-> 90, primary |-> TRUE]>>)
    @@ ("Callus and Pain Point" :>
         <<[rec_name |-> "Soft Cushioning", category |-> "intrinsic", confidence |-> 85, primary |-> TRUE],
           [rec_name |-> "Off-Loading", category |-> "intrinsic", confidence |-> 90, primary |-> TRUE],
           [rec_name |-> "Pressure Relief Pad", category |-> "intrinsic", confidence |-> 90, primary |-> TRUE]>>)
    @@ ("Ulcer" :>
         <<[rec_name |-> "Off-Loading", category |-> "intrinsic", confidence |-> 95, primary |-> TRUE],
           [rec_name |-> "Total Contact Orthotic", category |-> "intrinsic", confidence |-> 90, primary |-> TRUE],
           [rec_name |-> "Ulcer Relief Aperture", category |-> "intrinsic", confidence |-> 95, primary |-> TRUE]>>)
    @@ ("Toe/Foot Part Amputation" :>
         <<[rec_name |-> "Toe filler", category |-> "intrinsic", confidence |-> 95, primary |-> TRUE],
           [rec_name |-> "Amputation Accommodation", category |-> "intrinsic", confidence |-> 95, primary |-> TRUE],
           [rec_name |-> "Rocker Sole", category |-> "extrinsic", confidence |-> 90, primary |-> TRUE]>>)
    @@ ("Leg Length Discrepancy" :>
         <<[rec_name |-> "Heel Height Pad", category |-> "extrinsic", confidence |-> 95, primary |-> TRUE],
           [rec_name |-> "Full Length Lift", category |-> "extrinsic", confidence |-> 90, primary |-> FALSE]>>)
    @@ ("Charcot Foot" :>
         <<[rec_name |-> "Total Contact Orthotic", category |-> "intrinsic", confidence |-> 95, primary |-> TRUE],
           [rec_name |-> "Rocker Sole", category |-> "extrinsic", confidence |-> 90, primary |-> TRUE],
           [rec_name |-> "Pressure Distribution Insole", category |-> "intrinsic", confidence |-> 90, primary |-> TRUE]>>)
    @@ ("Diabetes with Neuropathy" :>
         <<[rec_name |-> "Total Contact Orthotic", category |-> "intrinsic", confidence |-> 95, primary |-> TRUE],
           [rec_name |-> "Soft Cushioning", category |-> "intrinsic", confidence |-> 90, primary |-> TRUE],
           [rec_name |-> "Pressure Redistribution", category |-> "intrinsic", confidence |-> 95, primary |-> TRUE]>>)

other_conditions ==
    <<"Abnormal peak pressure",
      "Callus and Pain Point",
      "Ulcer",
      "Toe/Foot Part Amputation",
      "Leg Length Discrepancy",
      "Charcot Foot",
      "Diabetes with Neuropathy">>

(* The other_conditions entries set to True by the detection logic *)
OtherConditionsPresent(arch_degree, detected_pathologies, patient_context) ==
    {c \in Elems(other_conditions) :
        \/ c = "Abnormal peak pressure" /\ In("Metatarsalgia", detected_pathologies)
        \/ c = "Callus and Pain Point"
              /\ In("Plantar Fasciitis", detected_pathologies) /\ arch_degree >= 3
        \/ /\ HasContext(patient_context)
           /\ \/ c = "Diabetes with Neuropathy"
                    /\ InHistory("diabetes", patient_context)
                    /\ InHistory("neuropathy", patient_context)
              \/ c = "Toe/Foot Part Amputation" /\ InHistory("amputation", patient_context)
              \/ c = "Charcot Foot" /\ InHistory("charcot", patient_context)
              \/ c = "Leg Length Discrepancy"
                    /\ Get(patient_context, "leg_length_discrepancy", FALSE)
              \/ c = "Ulcer" /\ (Get(patient_context, "ulcer_history", FALSE)
                                   \/ InHistory("ulcer", patient_context))}

HighRiskConditions == {"Diabetes with Neuropathy", "Charcot Foot", "Ulcer"}

OtherFlags(present) ==
    IF present \cap HighRiskConditions # {} THEN {"high_risk_foot"} ELSE {}

RECURSIVE OtherRules(_, _)
OtherRules(present, n) ==
    IF n = 0 THEN <<>>
    ELSE OtherRules(present, n - 1)
            \o (IF other_conditions[n] \in present
                THEN Get(other_conditions_map, other_conditions[n], <<>>)
                ELSE <<>>)

(* The add_recommendation calls apply_medical_rules makes, in order *)
RuleCalls(args) ==
    ArchRules(args.arch_type, args.arch_degree, args.patient_context)
        \o ForefootRules(args.alignment, args.arch_degree)
        \o MidfootRules(args.alignment, args.arch_type, args.arch_degree)
        \o HindfootRules(args.alignment, args.arch_degree)
        \o PathologyRules(args.detected_pathologies, Len(args.detected_pathologies))
        \o OtherRules(OtherConditionsPresent(args.arch_degree, args.detected_pathologies,
                                             args.patient_context),
                      Len(other_conditions))

RuleFlags(args) ==
    [f \in ArchFlags(args.arch_type, args.arch_degree)
            \cup OtherFlags(OtherConditionsPresent(args.arch_degree,
                                                   args.detected_pathologies,
                                                   args.patient_context))
        |-> TRUE]

(* The recommendations dict after the first n calls *)
RECURSIVE AddAll(_, _)
AddAll(made, n) ==
    IF n = 0 THEN EmptyRecommendations
    ELSE CHOOSE after \in
            {add_recommendation(before, made[n].rec_name, made[n].category,
                                made[n].confidence, made[n].primary) :
                before \in {AddAll(made, n - 1)}} : TRUE

apply_medical_rules(made, flags) == SetItem(AddAll(made, Len(made)), "flags", flags)

ApplyMedicalRules ==
    /\ rule_args = NoArgs
    /\ \E arch_type \in ArchTypes, arch_degree \in ArchDegrees,
          alignment \in [Zones -> Alignments],
          detected_pathologies \in PathologyInputs,
          patient_context \in PatientContexts :
          \E args \in {[arch_type |-> arch_type, arch_degree |-> arch_degree,
                        alignment |-> alignment,
                        detected_pathologies |-> detected_pathologies,
                        patient_context |-> patient_context]} :
          \E made \in {RuleCalls(args)} :
             /\ rule_args' = args
             /\ calls' = made
             /\ recommendations' = apply_medical_rules(made, RuleFlags(args))
    /\ UNCHANGED <<ensembleVars, baseVars, diagVars, abbrVars, pressureVars>>

----------------------------------------------------------------------------
(* diagnosis_rules.py: map_abbreviations *)

MaxCandidates == 2

abbreviation_map ==
    ("MP" :> "Metatarsal Pad")
    @@ ("MPL" :> "Metatarsal Platform")
    @@ ("MT Bar" :> "Metatarsal Bar")
    @@ ("AS" :> "Arch Support")
    @@ ("MAS" :> "Medial Arch Support")
    @@ ("NAS" :> "Navicular Arch Support")
    @@ ("SAW" :> "Supinator Anterior Wedge")
    @@ ("PAW" :> "Pronator Anterior Wedge")
    @@ ("SPW" :> "Supinator Posterior Wedge")
    @@ ("PPW" :> "Pronator Posterior Wedge")
    @@ ("LLD" :> "Leg Length Discrepancy")
    @@ ("1MT" :> "First Metatarsal")
    @@ ("5MT" :> "Fifth Metatarsal")

(* chars.split('(')[0] *)
BeforeParen(chars) ==
    IF \E i \in 1..Len(chars) : chars[i] = "("
    THEN SubSeq(chars, 1,
                (CHOOSE i \in 1..Len(chars) :
                    chars[i] = "(" /\ \A j \in 1..(i - 1) : chars[j] # "(") - 1)
    ELSE chars

(* chars.strip() *)
Strip(chars) ==
    IF \A i \in 1..Len(chars) : chars[i] = " "
    THEN <<>>
    ELSE SubSeq(chars,
                CHOOSE i \in 1..Len(chars) :
                    chars[i] # " " /\ \A j \in 1..(i - 1) : chars[j] = " ",
                CHOOSE i \in 1..Len(chars) :
                    chars[i] # " " /\ \A j \in (i + 1)..Len(chars) : chars[j] = " ")

abbreviation_chars == [key \in DOMAIN abbreviation_map |-> Chars(key)]

(* if abbr in abbreviation_map: the key that abbr equals, if any *)
KeyOf(abbr) ==
    IF \E key \in DOMAIN abbreviation_map : abbreviation_chars[key] = abbr
    THEN CHOOSE key \in DOMAIN abbreviation_map : abbreviation_chars[key] = abbr
    ELSE None

(* abbr = rec.split('(')[0].strip() *)
AbbreviationKey(rec) ==
    CHOOSE key \in {KeyOf(abbr) : abbr \in {Strip(BeforeParen(Chars(rec)))}} : TRUE

(* The loop over recommendations_list, after its first n entries *)
RECURSIVE AbbreviationLoop(_, _)
AbbreviationLoop(recommendations_list, n) ==
    IF n = 0 THEN <<>>
    ELSE CHOOSE result \in
            {IF key # None THEN SetItem(before, key, abbreviation_map[key]) ELSE before :
                key \in {AbbreviationKey(recommendations_list[n])},
                before \in {AbbreviationLoop(recommendations_list, n - 1)}} : TRUE

(* recommendations_list of a dict: combined_list replaces what was extended *)
DictRecommendationsList_extend_combined(recommendations_data) ==
    Get(recommendations_data, "intrinsic", <<>>)
        \o Get(recommendations_data, "extrinsic", <<>>)
        \o Get(recommendations_data, "combined_list", <<>>)

DictRecommendationsList(recommendations_data) ==
    IF "combined_list" \in DOMAIN recommendations_data
    THEN recommendations_data["combined_list"]
    ELSE Get(recommendations_data, "intrinsic", <<>>)
            \o Get(recommendations_data, "extrinsic", <<>>)

(* kind is what isinstance tells about recommendations_data *)
map_abbreviations(kind, recommendations_data) ==
    IF kind = "list"
    THEN AbbreviationLoop(recommendations_data, Len(recommendations_data))
    ELSE IF kind = "dict"
    THEN CHOOSE result \in
            {AbbreviationLoop(recommendations_list, Len(recommendations_list)) :
                recommendations_list \in {DictRecommendationsList(recommendations_data)}} : TRUE
    ELSE <<>>

(* Recommendation strings given to map_abbreviations: abbreviated and full   *)
(* names, an abbreviation between blanks, one inside the parentheses, one in  *)
(* lower case.                                                                *)
AbbrCandidates ==
    {"AS (Arch Support)", "MAS", "Metatarsal Pad", " MP ", "(AS)",
     "MT Bar (Metatarsal Bar)", "as (Arch Support)"}

CandidateLists ==
    UNION {[1..n -> AbbrCandidates] : n \in 0..MaxCandidates}

OptionalKey(key) ==
    {<<>>} \cup {key :> <<>>} \cup {key :> <<c>> : c \in AbbrCandidates}

AbbrInputs ==
    {[kind |-> "list", data |-> l] : l \in CandidateLists}
    \cup {[kind |-> "dict", data |-> i @@ e @@ c] :
            i \in OptionalKey("intrinsic"), e \in OptionalKey("extrinsic"),
            c \in OptionalKey("combined_list")}
    \cup {[kind |-> "NoneType", data |-> None], [kind |-> "str", data |-> "MAS"]}

NoInput == [kind |-> None]

MapAbbreviations ==
    /\ abbr_input = NoInput
    /\ \E input \in AbbrInputs :
          /\ abbr_input' = input
          /\ abbr_result' = map_abbreviations(input.kind, input.data)
    /\ UNCHANGED <<rulesVars, ensembleVars, baseVars, diagVars, pressureVars>>

----------------------------------------------------------------------------
(* pressure_model.py: FootPressureModel.analyze, as run by the worker        *)
(* threads of OptimizedScanProcessor on the one FootDiagnosisModel instance.  *)
(* Each thread runs the method's statements in order; the statements of two   *)
(* threads interleave.  Of the skin data only the detected type and the       *)
(* calibration flag are kept.                                                 *)

Callers == {"scan_a", "scan_b"}

FitzpatrickTypes == {"type_1", "type_2", "type_3", "type_4", "type_5", "type_6"}

(* The images of a call: the skin type its first colour image shows, or no   *)
(* colour image at all.                                                       *)
NoColorImage == "no_color_image"

CallImages == FitzpatrickTypes \cup {NoColorImage}

InitialSkinData == [detected_skin_type |-> None, calibration_applied |-> FALSE]

DefaultSkinData == [detected_skin_type |-> "type_3", calibration_applied |-> FALSE]

detect_skin_tone(img) == [detected_skin_type |-> img, calibration_applied |-> TRUE]

(* What the first part of analyze assigns to self.current_skin_data *)
SkinDataFor(images) ==
    IF images = NoColorImage THEN DefaultSkinData ELSE detect_skin_tone(images)

PressureResult(skin_data, calibration) ==
    [skin_tone_analysis |->
        [detected_skin_type |-> skin_data.detected_skin_type,
         calibration_applied |-> skin_data.calibration_applied],
     calibrated_for |-> calibration.detected_skin_type]

NoPressureResult == [skin_tone_analysis |-> None]

(* analyze(images, measurements) is entered *)
StartCall(t) ==
    /\ call_pc[t] = "idle"
    /\ \E images \in CallImages :
          call_images' = [call_images EXCEPT ![t] = images]
    /\ call_pc' = [call_pc EXCEPT ![t] = "detect"]
    /\ UNCHANGED <<current_skin_data, calibrated_with, call_results>>
    /\ UNCHANGED <<rulesVars, ensembleVars, baseVars, diagVars, abbrVars>>

(* self.current_skin_data = self._detect_skin_tone(img), or the default dict *)
DetectSkinTone(t) ==
    /\ call_pc[t] = "detect"
    /\ current_skin_data' = SkinDataFor(call_images[t])
    /\ call_pc' = [call_pc EXCEPT ![t] = "calibrate"]
    /\ UNCHANGED <<call_images, calibrated_with, call_results>>
    /\ UNCHANGED <<rulesVars, ensembleVars, baseVars, diagVars, abbrVars>>

(* calibrated = self._calibrate_image_for_skin_tone(img, self.current_skin_data) *)
CalibrateImages(t) ==
    /\ call_pc[t] = "calibrate"
    /\ calibrated_with' = [calibrated_with EXCEPT ![t] = current_skin_data]
    /\ call_pc' = [call_pc EXCEPT ![t] = "report"]
    /\ UNCHANGED <<current_skin_data, call_images, call_results>>
    /\ UNCHANGED <<rulesVars, ensembleVars, baseVars, diagVars, abbrVars>>

(* results = {..., "skin_tone_analysis": {... self.current_skin_data ...}} *)
ReportPressure(t) ==
    /\ call_pc[t] = "report"
    /\ call_results' =
          [call_results EXCEPT ![t] = PressureResult(current_skin_data, calibrated_with[t])]
    /\ call_pc' = [call_pc EXCEPT ![t] = "done"]
    /\ UNCHANGED <<current_skin_data, call_images, calibrated_with>>
    /\ UNCHANGED <<rulesVars, ensembleVars, baseVars, diagVars, abbrVars>>

----------------------------------------------------------------------------
(* ai_diagnosis.py: FootDiagnosisModel.analyze_foot_images *)

ModelIds == <<"arch_type", "pronation", "pressure", "deformity", "gait",
              "footwear", "advanced_measurements">>

(* Every registered model class defines its own analyze, which replaces      *)
(* BaseFootModel.analyze; none of them calls the inherited wrapper.           *)
OverridesAnalyze == [m \in Elems(ModelIds) |-> TRUE]

Severities == {"none", "mild", "severe"}

(* The aggregator reads whatever dict the model registered under an id       *)
(* returns.  The arch results range over the three codes ArchTypeModel votes *)
(* on and over codes its mapping table and its default branch provide for.   *)
(* condition_name of an arch code: BaseFootModel._get_condition_name         *)
ArchConditionName ==
    [normal_arch |-> "Normal Arch", flat_feet |-> "Flat Feet (Pes Planus)",
     high_arch |-> "High Arch (Pes Cavus)", Flatfoot |-> "Flatfoot",
     rigid_arch |-> "Rigid Arch"] @@ ("pes planus" :> "Pes Planus")

ArchResults ==
    {[condition |-> c, condition_name |-> ArchConditionName[c], confidence |-> conf,
      severity |-> sev, arch_measurements |-> m] :
        c \in DOMAIN ArchConditionName, conf \in {55, 90}, sev \in Severities,
        m \in {<<>>, [arch_height_index |-> 10], [arch_height_index |-> 45]}}

(* The last two results carry the per-zone data _determine_zone_alignment    *)
(* reads from 'zone_alignment'.                                              *)
PronationResults ==
    {[condition |-> "neutral_pronation", condition_name |-> "Neutral Pronation",
      confidence |-> 85, severity |-> "none"],
     [condition |-> "overpronation", condition_name |-> "Overpronation",
      confidence |-> 80, severity |-> "mild"],
     [condition |-> "overpronation", condition_name |-> "Overpronation",
      confidence |-> 80, severity |-> "mild",
      zone_alignment |-> [hindfoot |-> [alignment |-> "varus", confidence |-> 50]]],
     [condition |-> "overpronation", condition_name |-> "Overpronation",
      confidence |-> 80, severity |-> "mild",
      zone_alignment |-> [hindfoot |-> [alignment |-> "varus", confidence |-> 80]]],
     [condition |-> "underpronation", condition_name |-> "Underpronation",
      confidence |-> 80, severity |-> "mild"]}

PressureResults ==
    {[condition |-> "normal_pressure", condition_name |-> "Normal Pressure Distribution",
      confidence |-> 70],
     [condition |-> "forefoot_pressure", condition_name |-> "Forefoot Pressure",
      confidence |-> 75]}

DeformityResults ==
    {[condition |-> "no_deformity", condition_name |-> "No Structural Deformities",
      confidence |-> 90, severity |-> "none"],
     [condition |-> "bunion", condition_name |-> "Bunion (Hallux Valgus)",
      confidence |-> 60, severity |-> "mild"]}

(* The third result carries the 'rearfoot_angle' key the hindfoot fallback   *)
(* reads; the last one names its finding as the pronation model does.        *)
GaitResults ==
    {[condition |-> "normal_gait", condition_name |-> "Normal Gait Pattern",
      confidence |-> 80, severity |-> "none"],
     [condition |-> "asymmetric_gait", condition_name |-> "Asymmetric Gait Pattern",
      confidence |-> 90, severity |-> "moderate"],
     [condition |-> "normal_gait", condition_name |-> "Normal Gait Pattern",
      confidence |-> 80, severity |-> "none", rearfoot_angle |-> 5],
     [condition |-> "overpronation_gait", condition_name |-> "Overpronation",
      confidence |-> 80, severity |-> "mild"]}

FootwearResults ==
    {[condition |-> "flat_feet", condition_name |-> "Flat Feet", confidence |-> 85]}

AdvancedMeasurementsResults == {[foot_posture_index |-> 2]}

ModuleResults(model_id) ==
    CASE model_id = "arch_type" -> ArchResults
      [] model_id = "pronation" -> PronationResults
      [] model_id = "pressure" -> PressureResults
      [] model_id = "deformity" -> DeformityResults
      [] model_id = "gait" -> GaitResults
      [] model_id = "footwear" -> FootwearResults
      [] model_id = "advanced_measurements" -> AdvancedMeasurementsResults

(* What the body of a module's analyze can do: return a result or raise *)
ModuleOutcomes(model_id) ==
    {Returns(r) : r \in ModuleResults(model_id)}
        \cup {Raises("ValueError", "module failure")}

(* model.analyze(preprocessed_images, measurements) as the loop sees it *)
ModelAnalyze(model_id, body) ==
    IF OverridesAnalyze[model_id]
    THEN IF body.raises # NoException
         THEN [outcome |-> "raised", last_error |-> None, value |-> body.raises]
         ELSE [outcome |-> "returned", last_error |-> None, value |-> body.returns]
    ELSE BaseAnalyzeResult(TryBody(ImageList(<<"ndarray_2d">>), "measurements", body), body)

AnalysisErrorResult(message) ==
    [error |-> message, condition |-> "unknown",
     condition_name |-> "Analysis Error", confidence |-> 0]

IsNewPrimary_or_equal(model_result, current_confidence) ==
    /\ Get(model_result, "confidence", 0) >= current_confidence
    /\ ~InLower("normal", Get(model_result, "condition_name", ""))
    /\ Get(model_result, "severity", "none") # "none"

(* Does this result replace the primary diagnosis? (lines 130-134) *)
IsNewPrimary(model_result, current_confidence) ==
    /\ Get(model_result, "confidence", 0) > current_confidence
    /\ ~InLower("normal", Get(model_result, "condition_name", ""))
    /\ Get(model_result, "severity", "none") # "none"

ResultOf(models, model_id) ==
    IF \E i \in 1..Len(models) : models[i].model_id = model_id
    THEN models[CHOOSE i \in 1..Len(models) : models[i].model_id = model_id].result
    ELSE <<>>

ArchTypeMapping ==
    [high_arch |-> "High Arch", flat_feet |-> "Flat Arch", normal_arch |-> "Normal Arch",
     flatfoot |-> "Flat Arch"]
        @@ ("high arch" :> "High Arch") @@ ("normal foot structure" :> "Normal Arch")

map_arch_type_to_pdf_terminology(arch_type) ==
    IF \E k \in DOMAIN ArchTypeMapping : Chars(k) = Lower(Chars(arch_type))
    THEN ArchTypeMapping[CHOOSE k \in DOMAIN ArchTypeMapping :
                            Chars(k) = Lower(Chars(arch_type))]
    ELSE "Normal Arch"

SeverityMap == [none |-> 1, mild |-> 2, moderate |-> 3, severe |-> 4]

determine_arch_degree(arch_result) ==
    LET condition == Get(arch_result, "condition", "normal_arch")
        severity == Get(arch_result, "severity", "none")
        arch_height_index ==
            Get(Get(arch_result, "arch_measurements", <<>>), "arch_height_index", 25)
    IN IF InLower("normal", condition) THEN 1
       ELSE IF InLower("flat", condition) \/ InLower("pes planus", condition)
       THEN IF arch_height_index >= 21 THEN 1
            ELSE IF arch_height_index >= 18 THEN 2
            ELSE IF arch_height_index >= 15 THEN 3
            ELSE 4
       ELSE IF InLower("high", condition) \/ InLower("pes cavus", condition)
       THEN IF arch_height_index <= 34 THEN 1
            ELSE IF arch_height_index <= 38 THEN 2
            ELSE IF arch_height_index <= 42 THEN 3
            ELSE 4
       ELSE Get(SeverityMap, severity, 1)

determine_zone_alignment(zone, alignment_result, gait_result) ==
    LET zone_specific == Get(Get(alignment_result, "zone_alignment", <<>>), zone, <<>>)
        condition == Get(alignment_result, "condition", "")
        alignment == Get(zone_specific, "alignment", "neutral")
        confidence == Get(zone_specific, "confidence", 50)
    IN IF zone_specific = <<>> /\ InLower("pronation", condition)
       THEN IF zone = "forefoot" THEN "varus" ELSE "valgus"
       ELSE IF zone_specific = <<>> /\ InLower("supination", condition)
       THEN IF zone = "forefoot" THEN "valgus" ELSE "varus"
       ELSE IF confidence >= 60 THEN alignment
       ELSE IF zone = "hindfoot" /\ "rearfoot_angle" \in DOMAIN gait_result
               /\ gait_result["rearfoot_angle"] < -2
       THEN "varus"
       ELSE IF zone = "hindfoot" /\ "rearfoot_angle" \in DOMAIN gait_result
               /\ gait_result["rearfoot_angle"] > 2
       THEN "valgus"
       ELSE "neutral"

IsPathology_above_threshold(result) ==
    /\ Get(result, "condition_name", "") # ""
    /\ ~InLower("normal", Get(result, "condition_name", ""))
    /\ Get(result, "severity", "none") # "none"
    /\ Get(result, "confidence", 0) > 60

IsPathology_case_sensitive(result) ==
    /\ Get(result, "condition_name", "") # ""
    /\ ~InString("normal", Get(result, "condition_name", ""))
    /\ Get(result, "severity", "none") # "none"
    /\ Get(result, "confidence", 0) >= 60

IsPathology(result) ==
    /\ Get(result, "condition_name", "") # ""
    /\ ~InLower("normal", Get(result, "condition_name", ""))
    /\ Get(result, "severity", "none") # "none"
    /\ Get(result, "confidence", 0) >= 60

RECURSIVE CollectPathologies(_, _)
CollectPathologies(models, n) ==
    IF n = 0 THEN <<>>
    ELSE IF IsPathology(models[n].result)
         THEN Append(CollectPathologies(models, n - 1),
                     models[n].result["condition_name"])
         ELSE CollectPathologies(models, n - 1)

StructuredDiagnosis(models) ==
    [arch_type |-> map_arch_type_to_pdf_terminology(
                       Get(ResultOf(models, "arch_type"), "condition", "normal_arch")),
     arch_degree |-> determine_arch_degree(ResultOf(models, "arch_type")),
     alignment |->
        [zone \in {"forefoot", "midfoot", "hindfoot"} |->
            determine_zone_alignment(zone, ResultOf(models, "pronation"),
                                     ResultOf(models, "gait"))],
     pathologies |-> CollectPathologies(models, Len(models))]

(* _generate_default_patient_context: pathology_indicators, in dict order *)
pathology_indicators ==
    <<[medical_condition |-> "Diabetes",
       indicators |-> <<"diabetic foot", "neuropathy", "peripheral vascular disease">>],
      [medical_condition |-> "Arthritis",
       indicators |-> <<"midfoot arthritis", "rheumatoid arthritis", "osteoarthritis">>],
      [medical_condition |-> "Previous foot surgery",
       indicators |-> <<"surgical scar", "fusion", "implant">>],
      [medical_condition |-> "Gout",
       indicators |-> <<"gouty arthritis", "tophi">>],
      [medical_condition |-> "Peripheral Neuropathy",
       indicators |-> <<"neuropathy", "numbness", "tingling">>]>>

(* any(indicator.lower() in condition for indicator in indicators) *)
Indicated(indicators, condition) ==
    \E i \in 1..Len(indicators) : Contains(condition, Lower(Chars(indicators[i])))

(* The inner loop over pathology_indicators, after its first n entries *)
RECURSIVE SeedHistory(_, _, _)
SeedHistory(medical_history, condition, n) ==
    IF n = 0 THEN medical_history
    ELSE CHOOSE history \in
            {IF Indicated(pathology_indicators[n].indicators, condition)
             THEN AppendUnique(before, pathology_indicators[n].medical_condition)
             ELSE before :
                before \in {SeedHistory(medical_history, condition, n - 1)}} : TRUE

(* The condition names a registered model can report *)
ConditionNames ==
    {Get(r, "condition_name", "") :
        r \in UNION {ModuleResults(model_id) : model_id \in Elems(ModelIds)}}
    \cup {AnalysisErrorResult("module failure")["condition_name"]}

(* What one result adds to an empty medical history, per condition name *)
SeededBy ==
    [name \in ConditionNames |->
        SeedHistory(<<>>, Lower(Chars(name)), Len(pathology_indicators))]

(* The outer loop over results['models'], after its first n entries *)
RECURSIVE SeededHistory(_, _)
SeededHistory(models, n) ==
    IF n = 0 THEN <<>>
    ELSE CHOOSE history \in
            {IF added = <<>> THEN before
             ELSE SeedHistory(before,
                              Lower(Chars(Get(models[n].result, "condition_name", ""))),
                              Len(pathology_indicators)) :
                added \in {SeededBy[Get(models[n].result, "condition_name", "")]},
                before \in {SeededHistory(models, n - 1)}} : TRUE

(* height is round(foot_length * 6.67) and weight is                         *)
(* max(50, min(120, round(height * (foot_width / foot_length * 2)))) when the *)
(* advanced measurements carry a positive length and width.                   *)
generate_default_patient_context(models) ==
    LET measurements == ResultOf(models, "advanced_measurements")
        foot_length == Get(measurements, "length", 0)
        foot_width == Get(measurements, "width", 0)
        height == IF foot_length > 0 THEN (foot_length * 667 + 50) \div 100 ELSE 170
    IN [age |-> 40,
        weight |-> IF foot_width > 0 /\ foot_length > 0
                   THEN Max(50, Min(120, (4 * height * foot_width + foot_length)
                                            \div (2 * foot_length)))
                   ELSE 70,
        height |-> height,
        activity_level |-> "moderate",
        medical_history |-> SeededHistory(models, Len(models)),
        previous_orthotics |-> FALSE,
        gender |-> "unknown"]

(* The patient_context argument: None when the caller supplies none, the     *)
(* empty dict when OptimizedScanProcessor._fetch_patient_data failed.  The    *)
(* empty dict is the empty function <<>>.                                     *)
EmptyDict == "{}"

(* if patient_context is None:                                                *)
(*     patient_context = self._generate_default_patient_context(results)      *)
ContextForRules(argument, models) ==
    IF argument = None THEN generate_default_patient_context(models) ELSE <<>>

(* enhanced_recommendations *)
EnhancedRecommendations(orthotic_recommendation_data, abbr_map) ==
    [intrinsic |-> Get(orthotic_recommendation_data, "intrinsic", <<>>),
     extrinsic |-> Get(orthotic_recommendation_data, "extrinsic", <<>>),
     primary |-> Get(orthotic_recommendation_data, "primary_recommendations", <<>>),
     secondary |-> Get(orthotic_recommendation_data, "secondary_recommendations", <<>>),
     confidence_scores |-> Get(orthotic_recommendation_data, "confidence_scores", <<>>),
     flags |-> Get(orthotic_recommendation_data, "flags", <<>>),
     orthotic_addons |-> Get(orthotic_recommendation_data, "combined_list", <<>>),
     abbreviation_map |-> abbr_map]

(* server_format_results, without the measurements, the assessment text and  *)
(* the copy of the detailed results                                           *)
ServerFormatResults(diagnosis, confidence, structured_diagnosis, rule_data, abbr_map) ==
    [diagnosis |-> diagnosis,
     confidence |-> confidence,
     structured_diagnosis |-> structured_diagnosis,
     recommendations |-> EnhancedRecommendations(rule_data, abbr_map),
     patient_context_used |-> TRUE]
    @@ (IF DOMAIN Get(rule_data, "flags", <<>>) # {}
        THEN "high_risk_flags" :> Get(rule_data, "flags", <<>>)
        ELSE <<>>)

FallbackDiagnosis ==
    [diagnosis |-> "Normal Foot Structure",
     confidence |-> 70,
     structured_diagnosis |->
        [arch_type |-> "Normal Arch", arch_degree |-> 1,
         alignment |-> [zone \in {"forefoot", "midfoot", "hindfoot"} |-> "neutral"],
         pathologies |-> <<>>],
     recommendations |-> [orthotic_addons |-> <<>>, abbreviation_map |-> <<>>]]

NoOutput == [diagnosis |-> None]

(* if primary_diagnosis: *)
Truthy(name) == name # None /\ name # ""

(* analyze_foot_images is entered; len(image_paths) raises for None and the  *)
(* outer except returns the fallback.                                         *)
StartAnalysis ==
    /\ pc = "idle"
    /\ \E paths \in {None, "paths"} :
          /\ image_paths' = paths
          /\ IF paths = None
             THEN /\ pc' = "done"
                  /\ output' = FallbackDiagnosis
                  /\ idx' = idx
             ELSE /\ pc' = "loop"
                  /\ output' = output
                  /\ idx' = 1
    /\ primary_diagnosis' = None
    /\ primary_confidence' = 0
    /\ results_models' = <<>>
    /\ UNCHANGED <<enabled_models, context_argument, toggles,
                   rulesVars, ensembleVars, baseVars, abbrVars, pressureVars>>

(* One iteration of the loop over enabled_models *)
RunModel ==
    /\ pc = "loop"
    /\ idx <= Len(enabled_models)
    /\ \E body \in ModuleOutcomes(enabled_models[idx]) :
       \E delivered \in {ModelAnalyze(enabled_models[idx], body)} :
          IF delivered.outcome = "returned"
          THEN /\ results_models' =
                    Append(results_models,
                           [model_id |-> enabled_models[idx], result |-> delivered.value,
                            analyze_raised |-> FALSE])
               /\ IF IsNewPrimary(delivered.value, primary_confidence)
                  THEN /\ primary_diagnosis' = delivered.value["condition_name"]
                       /\ primary_confidence' = delivered.value["confidence"]
                  ELSE UNCHANGED <<primary_diagnosis, primary_confidence>>
          ELSE /\ results_models' =
                    Append(results_models,
                           [model_id |-> enabled_models[idx],
                            result |-> AnalysisErrorResult(delivered.value.message),
                            analyze_raised |-> TRUE])
               /\ UNCHANGED <<primary_diagnosis, primary_confidence>>
    /\ idx' = idx + 1
    /\ UNCHANGED <<enabled_models, pc, image_paths, output, context_argument, toggles,
                   rulesVars, ensembleVars, baseVars, abbrVars, pressureVars>>

(* After the loop: summary diagnosis, structured diagnosis, the rule engine  *)
(* and the abbreviation map.  patient_context is first read here.             *)
Aggregate ==
    /\ pc = "loop"
    /\ idx > Len(enabled_models)
    /\ \E argument \in {None, EmptyDict} :
       \E structured_diagnosis \in {StructuredDiagnosis(results_models)} :
       \E args \in {[arch_type |-> structured_diagnosis.arch_type,
                     arch_degree |-> structured_diagnosis.arch_degree,
                     alignment |-> structured_diagnosis.alignment,
                     detected_pathologies |-> structured_diagnosis.pathologies,
                     patient_context |-> ContextForRules(argument, results_models)]} :
       \E made \in {RuleCalls(args)} :
       \E orthotic_recommendation_data \in {apply_medical_rules(made, RuleFlags(args))} :
       \E abbr_map \in {map_abbreviations("dict", orthotic_recommendation_data)} :
          /\ context_argument' = argument
          /\ rule_args' = args
          /\ calls' = made
          /\ recommendations' = orthotic_recommendation_data
          /\ output' =
               ServerFormatResults(
                   IF Truthy(primary_diagnosis) THEN primary_diagnosis
                   ELSE Get(ResultOf(results_models, "arch_type"),
                            "condition_name", "Normal Foot Structure"),
                   IF Truthy(primary_diagnosis) THEN primary_confidence
                   ELSE Get(ResultOf(results_models, "arch_type"), "confidence", 90),
                   structured_diagnosis, orthotic_recommendation_data, abbr_map)
    /\ pc' = "done"
    /\ UNCHANGED <<enabled_models, image_paths, idx, results_models,
                   primary_diagnosis, primary_confidence, toggles,
                   ensembleVars, baseVars, abbrVars, pressureVars>>

(* enable_model and disable_model, called between analyses.  The ids the     *)
(* callers pass are the registered ones and one that is not registered.       *)
MaxToggles == 3

EnableModel ==
    /\ pc = "idle"
    /\ toggles < MaxToggles
    /\ \E model_id \in Elems(ModelIds) \cup {"unregistered_model"} :
          enabled_models' =
              IF In(model_id, ModelIds) /\ ~In(model_id, enabled_models)
              THEN Append(enabled_models, model_id)
              ELSE enabled_models
    /\ toggles' = toggles + 1
    /\ UNCHANGED <<pc, image_paths, idx, results_models, primary_diagnosis,
                   primary_confidence, output, context_argument,
                   rulesVars, ensembleVars, baseVars, abbrVars, pressureVars>>

DisableModel ==
    /\ pc = "idle"
    /\ toggles < MaxToggles
    /\ \E model_id \in Elems(ModelIds) \cup {"unregistered_model"} :
          enabled_models' =
              IF In(model_id, enabled_models)
              THEN SelectSeq(enabled_models, LAMBDA e : e # model_id)
              ELSE enabled_models
    /\ toggles' = toggles + 1
    /\ UNCHANGED <<pc, image_paths, idx, results_models, primary_diagnosis,
                   primary_confidence, output, context_argument,
                   rulesVars, ensembleVars, baseVars, abbrVars, pressureVars>>

----------------------------------------------------------------------------
(* Initial values of each component *)

InitEnsembleVars == classification_results = <<>> /\ overall = NoOverall

InitBaseVars == last_error = None /\ responses = <<>>

InitDiagVars ==
    /\ enabled_models = ModelIds
    /\ pc = "idle"
    /\ image_paths = None
    /\ idx = 0
    /\ results_models = <<>>
    /\ primary_diagnosis = None
    /\ primary_confidence = 0
    /\ output = NoOutput
    /\ context_argument = None
    /\ toggles = 0

InitPressureVars ==
    /\ current_skin_data = InitialSkinData
    /\ call_pc = [t \in Callers |-> "idle"]
    /\ call_images = [t \in Callers |-> NoColorImage]
    /\ calibrated_with = [t \in Callers |-> InitialSkinData]
    /\ call_results = [t \in Callers |-> NoPressureResult]

InitAbbrVars == abbr_input = NoInput /\ abbr_result = <<>>

InitRulesVars ==
    /\ recommendations = EmptyRecommendations
    /\ calls = <<>>
    /\ rule_args = NoArgs

----------------------------------------------------------------------------
(* Specification of the add_recommendation primitive *)

InitAdd == InitRulesVars /\ InitEnsembleVars /\ InitBaseVars /\ InitDiagVars
               /\ InitAbbrVars /\ InitPressureVars

NextAdd == AddRecommendation

SpecAdd == InitAdd /\ [][NextAdd]_vars

(* Specification of the rule engine apply_medical_rules *)

InitRules == InitRulesVars /\ InitEnsembleVars /\ InitBaseVars /\ InitDiagVars
               /\ InitAbbrVars /\ InitPressureVars

NextRules == ApplyMedicalRules

SpecRules == InitRules /\ [][NextRules]_vars

(* Specification of the arch-type ensemble classifier *)

InitEnsemble == InitRulesVars /\ InitEnsembleVars /\ InitBaseVars /\ InitDiagVars
               /\ InitAbbrVars /\ InitPressureVars

NextEnsemble == ClassifyArch

SpecEnsemble == InitEnsemble /\ [][NextEnsemble]_vars

(* Specification of the BaseFootModel.analyze wrapper *)

InitBase == InitRulesVars /\ InitEnsembleVars /\ InitBaseVars /\ InitDiagVars
               /\ InitAbbrVars /\ InitPressureVars

NextBase == BaseAnalyze

SpecBase == InitBase /\ [][NextBase]_vars

(* Specification of FootDiagnosisModel.analyze_foot_images *)

InitDiag == InitRulesVars /\ InitEnsembleVars /\ InitBaseVars /\ InitDiagVars
               /\ InitAbbrVars /\ InitPressureVars

NextDiag == StartAnalysis \/ RunModel \/ Aggregate

SpecDiag == InitDiag /\ [][NextDiag]_vars

(* The state after construction, for the specifications below *)

InitAll == InitRulesVars /\ InitEnsembleVars /\ InitBaseVars /\ InitDiagVars
               /\ InitAbbrVars /\ InitPressureVars

(* Specification of map_abbreviations *)

NextAbbr == MapAbbreviations

SpecAbbr == InitAll /\ [][NextAbbr]_vars

(* Specification of enable_model and disable_model *)

NextToggle == EnableModel \/ DisableModel

SpecToggle == InitAll /\ [][NextToggle]_vars

(* Specification of two concurrent FootPressureModel.analyze calls *)

NextPressure ==
    \E t \in Callers :
        StartCall(t) \/ DetectSkinTone(t) \/ CalibrateImages(t) \/ ReportPressure(t)

SpecPressure == InitAll /\ [][NextPressure]_vars

----------------------------------------------------------------------------
(* Properties of the add_recommendation primitive *)

LastCall(cs) == cs[Len(cs)]

IsAddStep == Len(calls') = Len(calls) + 1

FirstCallOf(rec_name) ==
    CHOOSE i \in 1..Len(calls) :
        /\ calls[i].rec_name = rec_name
        /\ \A j \in 1..(i - 1) : calls[j].rec_name # rec_name

\* C1: calling add_recommendation twice in a row with the same arguments
\* leaves every field of the recommendation set exactly as it was after the
\* first call.
C1_AddIdempotent ==
    [][(IsAddStep /\ Len(calls) >= 1 /\ LastCall(calls') = LastCall(calls))
          => recommendations' = recommendations]_vars

C1_Witness ==
    /\ Len(calls) = 2
    /\ calls[1] = calls[2]
    /\ recommendations.combined_list = <<calls[1].rec_name>>
    /\ recommendations[calls[1].category] = <<calls[1].rec_name>>

\* C2: an add of a name already present in the same category list changes
\* neither its confidence nor its priority lists; in particular
\* add(X, intrinsic, 0.9, primary) then add(X, intrinsic, 0.5, secondary)
\* leaves confidence_scores[X] = 0.9 and X under primary only.
C2_Scenario(X) ==
    calls = <<AddCall(X, "intrinsic", 90, TRUE), AddCall(X, "intrinsic", 50, FALSE)>>

C2_FirstWriteWinsInCategory ==
    /\ [][\A n \in RecNames :
            (IsAddStep /\ LastCall(calls').rec_name = n
                /\ In(n, recommendations[LastCall(calls').category]))
            => /\ recommendations'.confidence_scores[n]
                    = recommendations.confidence_scores[n]
               /\ In(n, recommendations'.primary_recommendations)
                    <=> In(n, recommendations.primary_recommendations)
               /\ In(n, recommendations'.secondary_recommendations)
                    <=> In(n, recommendations.secondary_recommendations)]_vars
    /\ [](\A X \in RecNames : C2_Scenario(X) =>
            /\ recommendations.confidence_scores[X] = 90
            /\ In(X, recommendations.primary_recommendations)
            /\ ~In(X, recommendations.secondary_recommendations))

C2_Witness ==
    /\ C2_Scenario("AS (Arch Support)")
    /\ recommendations.confidence_scores["AS (Arch Support)"] = 90
    /\ recommendations.primary_recommendations = <<"AS (Arch Support)">>
    /\ recommendations.secondary_recommendations = <<>>

----------------------------------------------------------------------------
(* Properties of the arch-type ensemble classifier *)

Classified == Len(classification_results) >= 1 /\ overall.condition # None

(* The accumulated vote of a category, summed over the set of results *)
Contribution ==
    [i \in 1..Len(classification_results) |->
        weights[classification_results[i].method] * classification_results[i].confidence]

TallyOf(c) ==
    SumOver(Contribution, {i \in 1..Len(classification_results) :
                              classification_results[i].classification = c})

CategoryIndex(c) == CHOOSE k \in 1..Len(VoteCategories) : VoteCategories[k] = c

\* C4: for any non-empty set of method results the confidence after the
\* weighted vote and the agreement boost is within [0.6, 0.95].
C4_ConfidenceBounds ==
    Classified =>
        /\ overall.base_confidence >= 6000 /\ overall.base_confidence <= 9500
        /\ overall.confidence >= 6000 /\ overall.confidence <= 9500

C4_Witness ==
    /\ Classified
    /\ TallyOf(overall.condition) < 6000
    /\ overall.confidence >= 6000
    /\ overall.confidence <= 9500

\* C5: when two or more categories attain the same maximal accumulated vote,
\* the winner is the one that comes first in the declared order flat_feet,
\* normal_arch, high_arch, whatever the order the results were supplied in.
C5_TieBreakDeclaredOrder ==
    Classified =>
        \A c \in Elems(VoteCategories) :
            (/\ \A d \in Elems(VoteCategories) : TallyOf(d) <= TallyOf(c)
             /\ \A d \in Elems(VoteCategories) :
                    TallyOf(d) = TallyOf(c) => CategoryIndex(c) <= CategoryIndex(d))
            => overall.condition = c

C5_Witness ==
    /\ Classified
    /\ overall.condition = "normal_arch"
    /\ TallyOf("normal_arch") = TallyOf("high_arch")
    /\ TallyOf("normal_arch") > TallyOf("flat_feet")
    /\ classification_results[1].method = "dynamic_arch_response"

----------------------------------------------------------------------------
(* Properties of FootDiagnosisModel.analyze_foot_images *)

Analyzed == pc = "done" /\ image_paths # None

C7_NoNormalPathology ==
    Analyzed =>
        \A i \in 1..Len(output.structured_diagnosis.pathologies) :
            ~InLower("normal", output.structured_diagnosis.pathologies[i])

C7_Witness ==
    /\ Analyzed
    /\ \E i \in 1..Len(results_models) :
          LET result == results_models[i].result
          IN /\ InLower("normal", Get(result, "condition_name", ""))
             /\ ~InString("normal", Get(result, "condition_name", ""))
             /\ Get(result, "severity", "none") # "none"
             /\ Get(result, "confidence", 0) >= 60
    /\ output.structured_diagnosis.pathologies # <<>>

AllModulesFailed ==
    /\ Len(results_models) = Len(ModelIds)
    /\ \A i \in 1..Len(results_models) : results_models[i].analyze_raised

\* C8: when every analysis module fails, analyze_foot_images returns the
\* static fallback: "Normal Foot Structure" with confidence 0.70, Normal Arch
\* of degree 1, three neutral zones and no pathologies.
C8_AllFailedGivesStaticFallback ==
    (Analyzed /\ AllModulesFailed) =>
        /\ output.diagnosis = FallbackDiagnosis.diagnosis
        /\ output.confidence = FallbackDiagnosis.confidence
        /\ output.structured_diagnosis = FallbackDiagnosis.structured_diagnosis

\* C10: a failure inside any registered module reaches the aggregator as the
\* structured error record (success false, error with type, message and
\* model_name), and no exception leaves the module's analyze call.
C10_FailureIsStructuredRecord ==
    \A i \in 1..Len(results_models) :
        /\ ~results_models[i].analyze_raised
        /\ "error" \in DOMAIN results_models[i].result
              => /\ "success" \in DOMAIN results_models[i].result
                 /\ results_models[i].result["success"] = FALSE
                 /\ {"type", "message", "model_name"}
                        \subseteq DOMAIN results_models[i].result["error"]

----------------------------------------------------------------------------
(* Properties of BaseFootModel.analyze *)

ErrorTypeOf(kind) ==
    IF kind = "ValidationError" THEN "validation_error"
    ELSE IF kind = "ModelError" THEN "model_error"
    ELSE "unexpected_error"

\* C9: BaseFootModel.analyze never raises; a ValidationError, a ModelError
\* and any other exception each become a returned record with success false
\* and error type validation_error, model_error or unexpected_error, with a
\* traceback only for unexpected_error, and last_error is set.
C9_AnalyzeNeverRaises ==
    /\ \A i \in 1..Len(responses) :
          /\ responses[i].outcome = "returned"
          /\ responses[i].exc # NoException
                => /\ responses[i].value["success"] = FALSE
                   /\ responses[i].value["error"].type = ErrorTypeOf(responses[i].exc.kind)
                   /\ responses[i].value["error"].message = responses[i].exc.message
                   /\ ("traceback" \in DOMAIN responses[i].value["error"])
                         <=> (ErrorTypeOf(responses[i].exc.kind) = "unexpected_error")
    /\ (Len(responses) > 0 /\ responses[Len(responses)].exc # NoException)
          => last_error = responses[Len(responses)].exc.message

C9_Witness ==
    /\ Len(responses) = 2
    /\ responses[1].exc = Raise("ValidationError", "No images provided")
    /\ responses[1].value["error"].type = "validation_error"
    /\ responses[2].exc.kind = "KeyError"
    /\ responses[2].value["error"].type = "unexpected_error"
    /\ "traceback" \in DOMAIN responses[2].value["error"]
    /\ last_error = responses[2].exc.message

----------------------------------------------------------------------------
(* Properties of apply_medical_rules *)

Applied == rule_args # NoArgs

AllNeutral(alignment) == \A zone \in Zones : alignment[zone] = "neutral"

FlagSet(flag) ==
    /\ flag \in DOMAIN recommendations.flags
    /\ recommendations.flags[flag]

\* C11: with medical_history ["diabetes", "peripheral neuropathy"] the rule
\* engine sets flags.high_risk_foot and intrinsic contains
\* "Total Contact Orthotic".
C11_DiabetesWithNeuropathyFires ==
    (Applied /\ HasContext(rule_args.patient_context)
        /\ rule_args.patient_context.medical_history
              = <<"diabetes", "peripheral neuropathy">>)
       => /\ FlagSet("high_risk_foot")
          /\ In("Total Contact Orthotic", recommendations.intrinsic)

C12_Scenario ==
    /\ Applied
    /\ rule_args.arch_type = "Flat Arch"
    /\ rule_args.arch_degree = 4
    /\ AllNeutral(rule_args.alignment)
    /\ rule_args.detected_pathologies = <<>>

\* C12: for a Flat Arch of degree 4 with neutral zones and no pathologies,
\* intrinsic contains "MAS (Medial Arch Support)" and
\* "NAS (Navicular Arch Support)", both scored 0.95, and
\* flags.severe_pes_planus is true.
C12_SevereFlatArch ==
    C12_Scenario =>
        /\ In("MAS (Medial Arch Support)", recommendations.intrinsic)
        /\ In("NAS (Navicular Arch Support)", recommendations.intrinsic)
        /\ recommendations.confidence_scores["MAS (Medial Arch Support)"] = 95
        /\ recommendations.confidence_scores["NAS (Navicular Arch Support)"] = 95
        /\ FlagSet("severe_pes_planus")

C12_Witness ==
    /\ C12_Scenario
    /\ HasContext(rule_args.patient_context)
    /\ In("Total Contact Orthotic", recommendations.intrinsic)
    /\ In("MAS (Medial Arch Support)", recommendations.primary_recommendations)

C13_Scenario ==
    /\ Applied
    /\ rule_args.arch_type = "Normal Arch"
    /\ rule_args.arch_degree = 1
    /\ rule_args.alignment["hindfoot"] = "valgus"
    /\ rule_args.detected_pathologies = <<"Plantar Fasciitis">>

\* C13: for a Normal Arch of degree 1 with hindfoot valgus and pathologies
\* ["Plantar Fasciitis"], extrinsic contains "Posterior Medial Wedge" scored
\* 0.80 and intrinsic contains "Heel Cushion Pad" and "Fascia Groove".
C13_ValgusWithPlantarFasciitis ==
    C13_Scenario =>
        /\ In("Posterior Medial Wedge", recommendations.extrinsic)
        /\ recommendations.confidence_scores["Posterior Medial Wedge"] = 80
        /\ In("Heel Cushion Pad", recommendations.intrinsic)
        /\ In("Fascia Groove", recommendations.intrinsic)

C13_Witness ==
    /\ C13_Scenario
    /\ rule_args.alignment["forefoot"] = "varus"
    /\ In("Posterior Medial Wedge", recommendations.extrinsic)
    /\ In("Calcaneal Spur Accommodation", recommendations.secondary_recommendations)

----------------------------------------------------------------------------
(* Further properties of the arch-type ensemble classifier *)

Voted == overall # NoOverall

CountOf(c) == ClassificationCount(classification_results, c)

----------------------------------------------------------------------------
(* Further properties of FootDiagnosisModel.analyze_foot_images *)

ResultAt(i) == results_models[i].result

(* Results that may become the primary diagnosis *)
Qualifying ==
    {i \in 1..Len(results_models) :
        /\ ~InLower("normal", Get(ResultAt(i), "condition_name", ""))
        /\ Get(ResultAt(i), "severity", "none") # "none"}

ArchEntry == CHOOSE i \in 1..Len(results_models) : results_models[i].model_id = "arch_type"

\* C18: when no result qualifies as primary diagnosis, the diagnosis and
\* confidence are the arch_type model's condition_name and confidence, and
\* they are "Normal Foot Structure" and 0.9 when the arch_type model errored.
C18_FallbackToArchResult ==
    (Analyzed /\ Qualifying = {}) =>
        IF results_models[ArchEntry].analyze_raised
        THEN output.diagnosis = "Normal Foot Structure" /\ output.confidence = 90
        ELSE /\ output.diagnosis = ResultAt(ArchEntry)["condition_name"]
             /\ output.confidence = ResultAt(ArchEntry)["confidence"]

StatedAlignment(zone) ==
    LET alignment_result == ResultOf(results_models, "pronation")
        gait_result == ResultOf(results_models, "gait")
        zone_specific == Get(Get(alignment_result, "zone_alignment", <<>>), zone, <<>>)
        condition == Get(alignment_result, "condition", "")
    IN IF zone_specific # <<>> /\ Get(zone_specific, "confidence", 50) >= 60
       THEN Get(zone_specific, "alignment", "neutral")
       ELSE IF InLower("pronation", condition)
       THEN IF zone = "forefoot" THEN "varus" ELSE "valgus"
       ELSE IF InLower("supination", condition)
       THEN IF zone = "forefoot" THEN "valgus" ELSE "varus"
       ELSE IF zone = "hindfoot" /\ Get(gait_result, "rearfoot_angle", 0) < -2
       THEN "varus"
       ELSE IF zone = "hindfoot" /\ Get(gait_result, "rearfoot_angle", 0) > 2
       THEN "valgus"
       ELSE "neutral"

----------------------------------------------------------------------------
(* Properties of the pathology list *)

(* The results that pass the stated filter, in the order they were stored *)
StatedPathologyResults ==
    SelectSeq(results_models,
              LAMBDA e : /\ e.result # <<>>
                         /\ "condition_name" \in DOMAIN e.result
                         /\ ~InLower("normal", e.result["condition_name"])
                         /\ "severity" \in DOMAIN e.result
                         /\ e.result["severity"] # "none"
                         /\ "confidence" \in DOMAIN e.result
                         /\ e.result["confidence"] >= 60)

----------------------------------------------------------------------------
(* Further properties of apply_medical_rules *)

Recommended(name) ==
    In(name, recommendations.intrinsic) \/ In(name, recommendations.extrinsic)

(* The named and the advanced correction of a zone and alignment *)
ZoneCorrection ==
    [forefoot |-> [valgus |-> <<"Anterior Medial Wedge", "SAW (Supinator Anterior Wedge)">>,
                   varus |-> <<"Anterior Lateral Wedge", "PAW (Pronator Anterior Wedge)">>],
     midfoot |-> [valgus |-> <<"MAS (Medial Arch Support)", "NAS (Navicular Arch Support)">>],
     hindfoot |-> [valgus |-> <<"Posterior Medial Wedge", "SPW (Supinator Posterior Wedge)">>,
                   varus |-> <<"Posterior Lateral Wedge", "PPW (Pronator Posterior Wedge)">>]]

\* C23: for every zone whose alignment is valgus or varus and every
\* arch_degree, the rule engine adds the zone's named correction scored
\* 0.75 + 0.05 x arch_degree, and the zone's advanced correction exactly when
\* arch_degree is at least 3.
C23_ZoneCorrections ==
    Applied =>
        \A zone \in Zones :
            rule_args.alignment[zone] \in DOMAIN ZoneCorrection[zone] =>
                LET correction == ZoneCorrection[zone][rule_args.alignment[zone]]
                IN /\ Recommended(correction[1])
                   /\ recommendations.confidence_scores[correction[1]]
                         = 75 + 5 * rule_args.arch_degree
                   /\ Recommended(correction[2]) <=> rule_args.arch_degree >= 3

(* How often a name occurs in a list *)
Occurrences(name, list) == Cardinality({i \in 1..Len(list) : list[i] = name})

RecommendedNames ==
    Elems(recommendations.intrinsic) \cup Elems(recommendations.extrinsic)
        \cup Elems(recommendations.combined_list)
        \cup Elems(recommendations.primary_recommendations)
        \cup Elems(recommendations.secondary_recommendations)
        \cup DOMAIN recommendations.confidence_scores

(* Every add_recommendation call the rule tables can make *)
AllRuleRecs ==
    UNION {Elems(ArchRules(a, d, c)) :
                a \in ArchTypes, d \in ArchDegrees, c \in PatientContexts}
    \cup UNION {Elems(ForefootRules(al, d)) \cup Elems(HindfootRules(al, d)) :
                al \in [Zones -> Alignments], d \in ArchDegrees}
    \cup UNION {Elems(MidfootRules(al, a, d)) :
                al \in [Zones -> Alignments], a \in ArchTypes, d \in ArchDegrees}
    \cup UNION {Elems(pathology_map[p]) : p \in DOMAIN pathology_map}
    \cup UNION {Elems(other_conditions_map[c]) : c \in DOMAIN other_conditions_map}

\* C29: whatever apply_medical_rules is given, each recommended name is in
\* exactly one of intrinsic/extrinsic, occurs exactly once in combined_list, is
\* in exactly one of primary_recommendations/secondary_recommendations and has
\* a confidence_scores entry; no rule table names a correction under two
\* categories, so the rules never list a name twice in combined_list.
C29_EachNameListedOnce ==
    /\ \A name \in RecommendedNames :
          /\ Occurrences(name, recommendations.intrinsic)
                + Occurrences(name, recommendations.extrinsic) = 1
          /\ Occurrences(name, recommendations.combined_list) = 1
          /\ Occurrences(name, recommendations.primary_recommendations)
                + Occurrences(name, recommendations.secondary_recommendations) = 1
          /\ name \in DOMAIN recommendations.confidence_scores
    /\ \A made \in AllRuleRecs, other \in AllRuleRecs :
          made.rec_name = other.rec_name => made.category = other.category

C29_Witness ==
    /\ Applied
    /\ rule_args.alignment["hindfoot"] = "valgus"
    /\ In("Accessory Navicular", rule_args.detected_pathologies)
    /\ Occurrences("Posterior Medial Wedge", [i \in 1..Len(calls) |-> calls[i].rec_name]) = 2
    /\ Occurrences("Posterior Medial Wedge", recommendations.combined_list) = 1
    /\ Occurrences("Posterior Medial Wedge", recommendations.extrinsic) = 1

----------------------------------------------------------------------------
(* Properties of map_abbreviations *)

Mapped == abbr_input # NoInput

(* The position where the text before the first "(" ends *)
ParenStop(chars) ==
    IF \E i \in 1..Len(chars) : chars[i] = "("
    THEN CHOOSE i \in 1..Len(chars) : chars[i] = "(" /\ \A j \in 1..(i - 1) : chars[j] # "("
    ELSE Len(chars) + 1

(* key, between blanks only, is the text of rec before its first "(" *)
IsTrimmedPrefix(key, rec) ==
    \E from \in 1..Len(Chars(rec)) :
        /\ from + Len(Chars(key)) <= ParenStop(Chars(rec))
        /\ \A j \in 1..Len(Chars(key)) : Chars(rec)[from + j - 1] = Chars(key)[j]
        /\ \A j \in 1..(ParenStop(Chars(rec)) - 1) :
              (j < from \/ j >= from + Len(Chars(key))) => Chars(rec)[j] = " "

(* The candidates the claim names for an input *)
StatedCandidates(input) ==
    IF input.kind = "list" THEN input.data
    ELSE IF "combined_list" \in DOMAIN input.data THEN input.data["combined_list"]
    ELSE Get(input.data, "intrinsic", <<>>) \o Get(input.data, "extrinsic", <<>>)

\* C27: map_abbreviations given a recommendation set that has a combined_list
\* returns the map it returns for the combined_list alone (intrinsic and
\* extrinsic count only when combined_list is absent); the map holds
\* abbreviation -> full name exactly for the table abbreviations that equal the
\* trimmed text before the first "(" of some candidate; an input that is
\* neither a list nor a map gives the empty map.
C27_CombinedListDecidesTheMap ==
    Mapped =>
        /\ (abbr_input.kind = "dict" /\ "combined_list" \in DOMAIN abbr_input.data)
              => abbr_result = map_abbreviations("list", abbr_input.data["combined_list"])
        /\ abbr_input.kind \in {"list", "dict"}
              => /\ DOMAIN abbr_result =
                       {key \in DOMAIN abbreviation_map :
                           \E i \in 1..Len(StatedCandidates(abbr_input)) :
                               IsTrimmedPrefix(key, StatedCandidates(abbr_input)[i])}
                 /\ \A key \in DOMAIN abbr_result : abbr_result[key] = abbreviation_map[key]
        /\ abbr_input.kind \notin {"list", "dict"} => DOMAIN abbr_result = {}

C27_Witness ==
    /\ abbr_input.kind = "dict"
    /\ DOMAIN abbr_input.data = {"intrinsic", "combined_list"}
    /\ abbr_input.data["intrinsic"] = <<"AS (Arch Support)">>
    /\ abbr_input.data["combined_list"] = <<" MP ">>
    /\ DOMAIN abbr_result = {"MP"}
    /\ abbr_result["MP"] = "Metatarsal Pad"

----------------------------------------------------------------------------
(* Properties of concurrent FootPressureModel.analyze calls *)

(* What analyze returns for these images when no other call runs *)
ResultAlone(images) == PressureResult(SkinDataFor(images), SkinDataFor(images))

\* C25: two concurrent calls on the same instance each return what they would
\* return alone: the skin data one call writes to the shared model is never
\* read by the other.
C25_ConcurrentCallsAreIndependent ==
    \A t \in Callers :
        call_pc[t] = "done" => call_results[t] = ResultAlone(call_images[t])

----------------------------------------------------------------------------
(* Properties of the value analyze_foot_images returns *)

Returned == pc = "done"

RecommendationKeys ==
    {"intrinsic", "extrinsic", "primary", "secondary", "confidence_scores", "flags",
     "orthotic_addons", "abbreviation_map"}

\* C24: every value analyze_foot_images returns, the one returned after an
\* internal exception included, has diagnosis, confidence, structured_diagnosis
\* and a recommendation set with all of the keys intrinsic, extrinsic, primary,
\* secondary, confidence_scores, flags, orthotic_addons and abbreviation_map.
C24_ReturnsCompleteRecommendationSet ==
    Returned =>
        /\ {"diagnosis", "confidence", "structured_diagnosis", "recommendations"}
              \subseteq DOMAIN output
        /\ RecommendationKeys \subseteq DOMAIN output.recommendations

\* C28: when _fetch_patient_data failed and the call is given the empty map,
\* the rule engine is applied to the synthesized default patient context (age
\* 40, weight 70, height 170, activity moderate, history seeded from the model
\* results), as when no context is supplied.
C28_EmptyContextIsReplacedByDefault ==
    (Analyzed /\ context_argument = EmptyDict) =>
        /\ rule_args.patient_context = generate_default_patient_context(results_models)
        /\ rule_args.patient_context.age = 40
        /\ rule_args.patient_context.activity_level = "moderate"

PronationCodes == {"overpronation", "underpronation", "neutral_pronation"}

(* The alignment the claim gives for a pronation code *)
StatedPronationAlignment(code, zone) ==
    CASE code = "overpronation" -> IF zone = "forefoot" THEN "varus" ELSE "valgus"
      [] code = "underpronation" -> IF zone = "forefoot" THEN "valgus" ELSE "varus"
      [] code = "neutral_pronation" -> "neutral"

AlignmentWedges ==
    {"Anterior Medial Wedge", "SAW (Supinator Anterior Wedge)",
     "Anterior Lateral Wedge", "PAW (Pronator Anterior Wedge)",
     "Posterior Medial Wedge", "SPW (Supinator Posterior Wedge)",
     "Posterior Lateral Wedge", "PPW (Pronator Posterior Wedge)"}

\* C30: for the codes the pronation model emits, with no per-zone data and no
\* gait rearfoot angle, overpronation gives hindfoot and midfoot valgus and
\* forefoot varus, underpronation gives hindfoot and midfoot varus and forefoot
\* valgus, and neutral_pronation gives neutral in all three zones, so that no
\* alignment wedge is recommended for it.
C30_PronationCodeDecidesAlignment ==
    (/\ Analyzed
     /\ Get(ResultOf(results_models, "pronation"), "condition", "") \in PronationCodes
     /\ "zone_alignment" \notin DOMAIN ResultOf(results_models, "pronation")
     /\ "rearfoot_angle" \notin DOMAIN ResultOf(results_models, "gait"))
    => /\ \A zone \in Zones :
             output.structured_diagnosis.alignment[zone]
                = StatedPronationAlignment(ResultOf(results_models, "pronation")["condition"],
                                           zone)
       /\ ResultOf(results_models, "pronation")["condition"] = "neutral_pronation"
             => Elems(output.recommendations.extrinsic) \cap AlignmentWedges = {}

----------------------------------------------------------------------------
(* Properties of enable_model and disable_model *)

(* The position of a model id in the registration order *)
RegistrationIndex(model_id) == CHOOSE i \in 1..Len(ModelIds) : ModelIds[i] = model_id

\* C26: after any sequence of enable_model and disable_model calls the
\* analysis, which visits enabled_models from first to last, still visits the
\* enabled models in the fixed registration order.
C26_EnabledModelsKeepRegistrationOrder ==
    \A i, j \in 1..Len(enabled_models) :
        i < j => RegistrationIndex(enabled_models[i]) < RegistrationIndex(enabled_models[j])

====
